---------------------------- MODULE Spec2Model ----------------------------
(***************************************************************************)
(* Notification dispatch pipeline of ai-cost-tracker:                      *)
(*   backend/jobs/notification_processor.py   (dispatcher)                 *)
(*   backend/services/notifications/rate_limiter.py  (RateLimiter)         *)
(*   backend/models/notification_queue.py, notification_history.py         *)
(*   backend/utils/alert_generator.py         (fan-out insert)             *)
(*                                                                         *)
(* The durable tables are `queue` (notification_queue) and `history`       *)
(* (notification_history).  A dispatcher works on objects loaded in its    *)
(* SQLAlchemy session; what it assigns becomes durable at commit and is    *)
(* discarded at rollback.  Time is counted in whole hours.                 *)
(***************************************************************************)
EXTENDS Integers, Sequences, FiniteSets, TLC

VARIABLES
    queue,     \* notification_queue rows, row id = index
    history,   \* notification_history rows, append-only
    now,       \* wall clock, hours
    pc,        \* per dispatcher: "idle" | "loop" | "send" | "commit"
    batch,     \* per dispatcher: rows of `pending` not yet visited, as loaded
    expired,   \* per dispatcher: session objects expired by a rollback
    item,      \* per dispatcher: the row object being dispatched (in memory)
    newhist,   \* per dispatcher: history objects added to the session, uncommitted
    outcome,   \* per dispatcher: what the last sender call or commit did
    lost,      \* ids of the rows a sender call delivered and whose commit then
               \* failed; kept by no table, recorded here to tell what the
               \* recipient saw
    alerts,    \* alerts rows, row id = index
    anomalies, \* detected_anomalies rows, row id = index
    usage,     \* per account: the daily totals of usage_records, date -> cost
    config,    \* per account: its anomaly_detection_configs row, or NoConfig
    prefs,     \* notification_preferences rows
    returned,  \* what the last call of an entry point returned
    runs       \* per detector run in progress: its position and local variables

vars == <<queue, history, now, pc, batch, expired, item, newhist, outcome, lost,
          alerts, anomalies, usage, config, prefs, returned, runs>>

\* the variables of the dispatcher's session, and the tables it does not touch
sessionVars == <<pc, batch, expired, item, newhist, outcome, lost>>

ruleVars == <<alerts, anomalies, usage, config, prefs, returned, runs>>

---------------------------------------------------------------------------
(* Bounds of the model. *)

\* rows that fan-out may insert in one run of the model
MaxItems == 3
\* hours the clock may advance
MaxTime == 2
\* stands for the batch size of the fetch, .limit(100)
BatchLimit == 2
\* history rows the model lets the table grow to
MaxHistory == 4
\* stands for the per_hour limit of email and of the fallback (10);
\* the other channels get twice this (20)
PerHour == 2
\* stands for the per_day limit of email and of the fallback (50);
\* the other channels get twice this (100)
PerDay == 3

\* hours the clock may advance while the alert rules and the detector run
MaxRuleTime == 1
\* alerts rows the model lets the table grow to
MaxAlerts == 3
\* notification_queue rows the alert rules may insert in one run of the model
MaxQueued == 6
\* a float stands for a whole number of 2^-FracBits dollars
FracBits == 4
\* significant bits of a float (53 in the program)
MantissaBits == 8

(* Program constants. *)

\* timedelta(hours=1), in hours
HourSpan == 1
\* timedelta(days=1), in hours
DaySpan == 24
\* NotificationQueue.max_retries column default
DefaultMaxRetries == 3

\* What fan-out inserts rows for: <<user_id, channel, priority>>.  User 1 has an
\* email and a slack preference, user 2 a discord preference (a channel the
\* preferences API accepts and the dispatcher has no sender for); the
\* priorities are those of _ALERT_META.
Kinds == {<<1, "email", 1>>, <<1, "email", 3>>, <<1, "slack", 2>>, <<2, "discord", 2>>}

Dispatchers == {1, 2}

\* Python None for a string column
None == "<None>"
\* Python None for a timestamp column is <<>>, a set timestamp t is <<t>>
NoTime == <<>>

Min(a, b) == IF a <= b THEN a ELSE b

\* accounts.id; account a belongs to user Owner(a) (Account.user_id)
Accounts == {1, 2}

Owner(account_id) == account_id

\* no anomaly_detection_configs row for the account (.first() returns None)
NoConfig == <<>>

\* no entry point has been called yet
NoCall == [op |-> "none"]

\* the detector runs that may be in progress at once (the scheduled run and
\* POST .../detect requests)
Runs == {1, 2}

\* the query of the existing row found none (.first() returns None)
NoRow == <<>>

\* no detect_anomalies call in progress
NoRun == [pc |-> "idle"]

---------------------------------------------------------------------------
(* RateLimiter *)

DEFAULT_LIMITS(channel) ==
    IF channel = "email" THEN [per_hour |-> PerHour, per_day |-> PerDay]
    ELSE [per_hour |-> 2 * PerHour, per_day |-> 2 * PerDay]

_FALLBACK_LIMIT == [per_hour |-> PerHour, per_day |-> PerDay]

ChannelLimits(channel) ==
    IF channel \in {"email", "slack", "discord", "teams"}
    THEN DEFAULT_LIMITS(channel)
    ELSE _FALLBACK_LIMIT

\* the count without the created_at filter
CountSince_AllTime(h, user_id, channel, since) ==
    Cardinality({k \in 1..Len(h) :
        /\ h[k].user_id = user_id
        /\ h[k].channel = channel})

\* the count without the channel filter
CountSince_AnyChannel(h, user_id, channel, since) ==
    Cardinality({k \in 1..Len(h) :
        /\ h[k].user_id = user_id
        /\ h[k].created_at >= since})

\* NotificationHistory.query.filter(user_id ==, channel ==, created_at >= since).count()
CountSince(h, user_id, channel, since) ==
    Cardinality({k \in 1..Len(h) :
        /\ h[k].user_id = user_id
        /\ h[k].channel = channel
        /\ h[k].created_at >= since})

\* can_send comparing with > where the code compares with >=
can_send_OffByOne(h, user_id, channel, t) ==
    /\ ~ (CountSince(h, user_id, channel, t - HourSpan) > ChannelLimits(channel).per_hour)
    /\ ~ (CountSince(h, user_id, channel, t - DaySpan) > ChannelLimits(channel).per_day)

can_send(h, user_id, channel, t) ==
    /\ ~ (CountSince(h, user_id, channel, t - HourSpan) >= ChannelLimits(channel).per_hour)
    /\ ~ (CountSince(h, user_id, channel, t - DaySpan) >= ChannelLimits(channel).per_day)

---------------------------------------------------------------------------
(* Queue rows and the fetch of a cycle *)

\* NotificationQueue(...) as fan-out builds it; the other columns take their defaults
NewItem(id, user_id, channel, priority, t) ==
    [id |-> id, user_id |-> user_id, channel |-> channel, priority |-> priority,
     status |-> "pending", retry_count |-> 0, max_retries |-> DefaultMaxRetries,
     error_message |-> None, sent_at |-> NoTime, created_at |-> t]

\* the ORDER BY without the priority column
Precedes_Fifo(a, b) == a.created_at < b.created_at

\* ORDER BY priority DESC, created_at ASC: a strictly precedes b
Precedes(a, b) ==
    \/ a.priority > b.priority
    \/ a.priority = b.priority /\ a.created_at < b.created_at

\* every order the ORDER BY allows for the rows S (rows that tie come in any order)
RECURSIVE Ordered(_)
Ordered(S) ==
    IF S = {} THEN {<<>>}
    ELSE UNION {{<<m>> \o s : s \in Ordered(S \ {m})} :
                m \in {x \in S : \A y \in S : ~ Precedes(y, x)}}

\* the fetch without filter_by(status="pending")
FetchPending_AnyStatus(q) ==
    LET rows == {q[i] : i \in 1..Len(q)}
    IN  {SubSeq(s, 1, Min(BatchLimit, Len(s))) : s \in Ordered(rows)}

FetchPending(q) ==
    LET rows == {q[i] : i \in {j \in 1..Len(q) : q[j].status = "pending"}}
    IN  {SubSeq(s, 1, Min(BatchLimit, Len(s))) : s \in Ordered(rows)}

---------------------------------------------------------------------------
(* What _dispatch_item assigns to the row object *)

\* the success branch without `item.error_message = None`
OnSuccess_KeepsError(it, t) ==
    [it EXCEPT !.status = "sent", !.sent_at = <<t>>]

\* _dispatch_item, the success branch
OnSuccess(it, t) ==
    [it EXCEPT !.status = "sent", !.sent_at = <<t>>, !.error_message = None]

\* `item.error_message = error_msg` without the fallback text
ErrorText_Raw(error_msg) == error_msg

\* error_msg or "Send failed"
ErrorText(error_msg) ==
    IF error_msg = None \/ error_msg = "" THEN "Send failed" ELSE error_msg

\* the failure branch without `item.retry_count += 1`
OnFailure_Uncounted(it, error_msg) ==
    [it EXCEPT !.error_message = IF error_msg = None \/ error_msg = ""
                                 THEN "Send failed" ELSE error_msg,
               !.status = IF it.retry_count >= it.max_retries
                          THEN "failed" ELSE it.status]

\* the failure branch comparing with > where the code compares with >=
OnFailure_Late(it, error_msg) ==
    LET n == it.retry_count + 1
    IN  [it EXCEPT !.retry_count = n,
                   !.error_message = IF error_msg = None \/ error_msg = ""
                                     THEN "Send failed" ELSE error_msg,
                   !.status = IF n > it.max_retries THEN "failed" ELSE it.status]

\* _dispatch_item, the failure branch
OnFailure(it, error_msg) ==
    LET n == it.retry_count + 1
    IN  [it EXCEPT !.retry_count = n,
                   !.error_message = ErrorText(error_msg),
                   !.status = IF n >= it.max_retries THEN "failed" ELSE it.status]

\* _mark_failed treating the unsupported channel as one more failed attempt
MarkFailed_Retries(it, reason) ==
    LET n == it.retry_count + 1
    IN  [it EXCEPT !.retry_count = n,
                   !.error_message = reason,
                   !.status = IF n >= it.max_retries THEN "failed" ELSE it.status]

\* _mark_failed, the assignments
MarkFailed(it, reason) ==
    [it EXCEPT !.status = "failed", !.error_message = reason]

\* f"Unsupported channel: {item.channel}"
UnsupportedReason(channel) ==
    IF channel = "discord" THEN "Unsupported channel: discord"
    ELSE IF channel = "teams" THEN "Unsupported channel: teams"
    ELSE "Unsupported channel: ?"

\* the channels _dispatch_item has a branch for
HasSender(channel) == channel \in {"email", "slack"}

\* NotificationHistory(notification_id, user_id, channel, status, duration_ms);
\* created_at is filled when the row is flushed
NewHistory(it, status) ==
    [notification_id |-> it.id, user_id |-> it.user_id, channel |-> it.channel,
     status |-> status]

Stamp(h, t) ==
    [notification_id |-> h.notification_id, user_id |-> h.user_id,
     channel |-> h.channel, status |-> h.status, created_at |-> t]

\* what the sender call can do: return True, return False, raise with a
\* message, raise with an empty message
SenderOutcomes == {"ok", "false", "raise", "raise_empty"}

ErrorMsgOf(o) ==
    IF o = "raise" THEN "timeout" ELSE IF o = "raise_empty" THEN "" ELSE None

---------------------------------------------------------------------------
Init ==
    /\ queue = <<>>
    /\ history = <<>>
    /\ now = 0
    /\ pc = [d \in Dispatchers |-> "idle"]
    /\ batch = [d \in Dispatchers |-> <<>>]
    /\ expired = [d \in Dispatchers |-> FALSE]
    /\ item = [d \in Dispatchers |-> <<>>]
    /\ newhist = [d \in Dispatchers |-> <<>>]
    /\ outcome = [d \in Dispatchers |-> "none"]
    /\ lost = {}
    /\ alerts = <<>>
    /\ anomalies = <<>>
    /\ usage = [a \in Accounts |-> <<>>]
    /\ config = [a \in Accounts |-> NoConfig]
    /\ prefs = <<>>
    /\ returned = NoCall
    /\ runs = [r \in Runs |-> NoRun]

\* One row inserted by fan-out (alert_generator._queue_notifications).  Rows are
\* inserted one after another, each at its own instant, so created_at grows
\* with the row id.  created_at is only ever compared with other rows'
\* created_at (the ORDER BY of the fetch), so it is counted in insertion instants.
Enqueue(user_id, channel, priority) ==
    /\ Len(queue) < MaxItems
    /\ queue' = Append(queue, NewItem(Len(queue) + 1, user_id, channel, priority,
                                      Len(queue) + 1))
    /\ UNCHANGED <<history, now, pc, batch, expired, item, newhist, outcome, lost,
                 alerts, anomalies, usage, config, prefs, returned, runs>>

\* an hour passes
Tick ==
    /\ now < MaxTime
    /\ now' = now + 1
    /\ UNCHANGED <<queue, history, pc, batch, expired, item, newhist, outcome, lost,
                 alerts, anomalies, usage, config, prefs, returned, runs>>

\* _process_notifications up to the loop: the fetch; nothing pending returns
StartCycle(d) ==
    /\ pc[d] = "idle"
    /\ \E b \in FetchPending(queue) :
        /\ Len(history) + Len(b) <= MaxHistory
        /\ batch' = [batch EXCEPT ![d] = b]
        /\ pc' = [pc EXCEPT ![d] = IF b = <<>> THEN "idle" ELSE "loop"]
    /\ expired' = [expired EXCEPT ![d] = FALSE]
    /\ outcome' = [outcome EXCEPT ![d] = "none"]
    /\ UNCHANGED <<queue, history, now, item, newhist, lost,
                 alerts, anomalies, usage, config, prefs, returned, runs>>

\* the row object of the loop's next item: as loaded by the fetch, or, once a
\* rollback has expired the session's objects, as reloaded on first access
Current(d) ==
    IF expired[d] THEN queue[Head(batch[d]).id] ELSE Head(batch[d])

\* the rate-limited branch counting the skip as an attempt
RateLimited_Counts(d) ==
    /\ pc[d] = "loop" /\ batch[d] # <<>>
    /\ ~ can_send(history, Current(d).user_id, Current(d).channel, now)
    /\ queue' = [queue EXCEPT ![Current(d).id].retry_count = @ + 1]
    /\ batch' = [batch EXCEPT ![d] = Tail(@)]
    /\ outcome' = [outcome EXCEPT ![d] = "rate_limited"]
    /\ UNCHANGED <<history, now, pc, expired, item, newhist, lost,
                 alerts, anomalies, usage, config, prefs, returned, runs>>

\* _dispatch_item: can_send denies, the item is skipped
RateLimited(d) ==
    /\ pc[d] = "loop" /\ batch[d] # <<>>
    /\ ~ can_send(history, Current(d).user_id, Current(d).channel, now)
    /\ batch' = [batch EXCEPT ![d] = Tail(@)]
    /\ outcome' = [outcome EXCEPT ![d] = "rate_limited"]
    /\ UNCHANGED <<queue, history, now, pc, expired, item, newhist, lost,
                 alerts, anomalies, usage, config, prefs, returned, runs>>

\* _dispatch_item: can_send allows and the channel has a sender, which is called
BeginSend(d) ==
    /\ pc[d] = "loop" /\ batch[d] # <<>>
    /\ can_send(history, Current(d).user_id, Current(d).channel, now)
    /\ HasSender(Current(d).channel)
    /\ item' = [item EXCEPT ![d] = Current(d)]
    /\ batch' = [batch EXCEPT ![d] = Tail(@)]
    /\ pc' = [pc EXCEPT ![d] = "send"]
    /\ outcome' = [outcome EXCEPT ![d] = "none"]
    /\ UNCHANGED <<queue, history, now, expired, newhist, lost,
                 alerts, anomalies, usage, config, prefs, returned, runs>>

\* _dispatch_item: can_send allows and the channel has no sender: _mark_failed
\* up to its commit
Unsupported(d) ==
    /\ pc[d] = "loop" /\ batch[d] # <<>>
    /\ can_send(history, Current(d).user_id, Current(d).channel, now)
    /\ ~ HasSender(Current(d).channel)
    /\ item' = [item EXCEPT ![d] =
                   MarkFailed(Current(d), UnsupportedReason(Current(d).channel))]
    /\ newhist' = [newhist EXCEPT ![d] = <<NewHistory(Current(d), "failed")>>]
    /\ batch' = [batch EXCEPT ![d] = Tail(@)]
    /\ pc' = [pc EXCEPT ![d] = "commit"]
    /\ outcome' = [outcome EXCEPT ![d] = "unsupported"]
    /\ UNCHANGED <<queue, history, now, expired, lost,
                 alerts, anomalies, usage, config, prefs, returned, runs>>

\* the sender returns or raises; the row object is updated and a history
\* object is added to the session
SenderReturns(d, o) ==
    /\ pc[d] = "send"
    /\ item' = [item EXCEPT ![d] =
                   IF o = "ok" THEN OnSuccess(@, now) ELSE OnFailure(@, ErrorMsgOf(o))]
    /\ newhist' = [newhist EXCEPT ![d] =
                   <<NewHistory(item[d], IF o = "ok" THEN "sent" ELSE "failed")>>]
    /\ outcome' = [outcome EXCEPT ![d] = o]
    /\ pc' = [pc EXCEPT ![d] = "commit"]
    /\ UNCHANGED <<queue, history, now, batch, expired, lost,
                 alerts, anomalies, usage, config, prefs, returned, runs>>

\* db.session.commit() succeeds: the row and the history object become durable
CommitOk(d) ==
    /\ pc[d] = "commit"
    /\ queue' = [queue EXCEPT ![item[d].id] = item[d]]
    /\ history' = history \o [k \in 1..Len(newhist[d]) |-> Stamp(newhist[d][k], now)]
    /\ newhist' = [newhist EXCEPT ![d] = <<>>]
    /\ item' = [item EXCEPT ![d] = <<>>]
    /\ pc' = [pc EXCEPT ![d] = "loop"]
    /\ outcome' = [outcome EXCEPT ![d] = "committed"]
    /\ lost' = lost \ {item[d].id}
    /\ UNCHANGED <<now, batch, expired,
                 alerts, anomalies, usage, config, prefs, returned, runs>>

\* the commit error not caught: it leaves the loop
Rollback_Aborts(d) ==
    /\ pc[d] = "commit"
    /\ newhist' = [newhist EXCEPT ![d] = <<>>]
    /\ item' = [item EXCEPT ![d] = <<>>]
    /\ expired' = [expired EXCEPT ![d] = FALSE]
    /\ batch' = [batch EXCEPT ![d] = <<>>]
    /\ pc' = [pc EXCEPT ![d] = "idle"]
    /\ outcome' = [outcome EXCEPT ![d] = "rolledback"]
    /\ UNCHANGED <<queue, history, now,
                 alerts, anomalies, usage, config, prefs, returned, runs>>

\* the row update reaching the table although the commit failed
Rollback_KeepsRow(d) ==
    /\ pc[d] = "commit"
    /\ queue' = [queue EXCEPT ![item[d].id] = item[d]]
    /\ newhist' = [newhist EXCEPT ![d] = <<>>]
    /\ item' = [item EXCEPT ![d] = <<>>]
    /\ expired' = [expired EXCEPT ![d] = TRUE]
    /\ pc' = [pc EXCEPT ![d] = "loop"]
    /\ outcome' = [outcome EXCEPT ![d] = "rolledback"]
    /\ UNCHANGED <<history, now, batch,
                 alerts, anomalies, usage, config, prefs, returned, runs>>

\* db.session.commit() raises: the except branch rolls back, which discards the
\* pending changes and expires every object of the session, and returns
Rollback(d) ==
    /\ pc[d] = "commit"
    /\ newhist' = [newhist EXCEPT ![d] = <<>>]
    /\ item' = [item EXCEPT ![d] = <<>>]
    /\ expired' = [expired EXCEPT ![d] = TRUE]
    /\ pc' = [pc EXCEPT ![d] = "loop"]
    /\ outcome' = [outcome EXCEPT ![d] = "rolledback"]
    /\ UNCHANGED <<queue, history, now, batch,
                 alerts, anomalies, usage, config, prefs, returned, runs>>

CommitFail(d) ==
    /\ Rollback(d)
    /\ UNCHANGED lost

\* the same step, with the lost delivery recorded
CommitFailSeen(d) ==
    /\ Rollback(d)
    /\ lost' = IF outcome[d] = "ok" THEN lost \cup {item[d].id} ELSE lost

\* the for loop is over
EndCycle(d) ==
    /\ pc[d] = "loop" /\ batch[d] = <<>>
    /\ pc' = [pc EXCEPT ![d] = "idle"]
    /\ expired' = [expired EXCEPT ![d] = FALSE]
    /\ outcome' = [outcome EXCEPT ![d] = "none"]
    /\ UNCHANGED <<queue, history, now, batch, item, newhist, lost,
                 alerts, anomalies, usage, config, prefs, returned, runs>>

Steps(d) ==
    \/ StartCycle(d)
    \/ RateLimited(d)
    \/ BeginSend(d)
    \/ Unsupported(d)
    \/ \E o \in SenderOutcomes : SenderReturns(d, o)
    \/ CommitOk(d)
    \/ EndCycle(d)

Environment ==
    \/ \E k \in Kinds : Enqueue(k[1], k[2], k[3])
    \/ Tick

\* the documented deployment: one dispatcher instance
Next ==
    \/ Environment
    \/ Steps(1)
    \/ CommitFail(1)

Spec == Init /\ [][Next]_vars

\* the same program, with the deliveries whose commit failed recorded in `lost`
NextSeen ==
    \/ Environment
    \/ Steps(1)
    \/ CommitFailSeen(1)

SpecSeen == Init /\ [][NextSeen]_vars

---------------------------------------------------------------------------
(* Alert rules: utils/alert_generator.py and routes/alerts.py.  Each entry  *)
(* point runs from call to return as one step.  The commits that the code   *)
(* guards with try/except can fail; a commit outside a try makes the call   *)
(* raise instead of return and is taken to succeed.                         *)

\* monthly_limit not set (Account.monthly_limit is nullable); a set limit of n
\* dollars is <<n>>
NoLimit == <<>>

\* the tiers of check_and_generate_alerts, in the order it evaluates them
Tiers ==
    <<[alert_type |-> "approaching_limit", threshold_percentage |-> 70],
      [alert_type |-> "high_cost", threshold_percentage |-> 90],
      [alert_type |-> "limit_exceeded", threshold_percentage |-> 100]>>

\* alert_type -> (notification category, priority); .get(alert_type, ("system", 1))
_ALERT_META(alert_type) ==
    CASE alert_type = "approaching_limit" -> [category |-> "budget", priority |-> 1]
      [] alert_type = "high_cost" -> [category |-> "budget", priority |-> 2]
      [] alert_type = "limit_exceeded" -> [category |-> "budget", priority |-> 3]
      [] alert_type = "unusual_activity" -> [category |-> "anomaly", priority |-> 2]
      [] alert_type = "service_down" -> [category |-> "system", priority |-> 2]
      [] OTHER -> [category |-> "system", priority |-> 1]

\* dict.get(key): None when the key is missing; config None or {} is <<>>
Get(cfg, key) == IF key \in DOMAIN cfg THEN cfg[key] ELSE None

\* config.get("address") for email, config.get("webhook_url") otherwise
Recipient(pref) ==
    IF pref.channel = "email" THEN Get(pref.config, "address")
    ELSE Get(pref.config, "webhook_url")

\* the loop's filter without the alert_types test
Eligible_AnyCategory(pref, user_id, category) ==
    /\ pref.user_id = user_id
    /\ pref.enabled
    /\ Recipient(pref) \notin {None, ""}

\* filter_by(user_id, enabled=True) and the two `continue`s of the loop
Eligible(pref, user_id, category) ==
    /\ pref.user_id = user_id
    /\ pref.enabled
    /\ (pref.alert_types = {} \/ category \in pref.alert_types)
    /\ Recipient(pref) \notin {None, ""}

\* NotificationQueue(alert_id, user_id, channel, recipient, priority, status="pending")
QueueItem(id, alert_id, pref, priority) ==
    [alert_id |-> alert_id, recipient |-> Recipient(pref)]
        @@ NewItem(id, pref.user_id, pref.channel, priority, id)

\* _queue_notifications: the queue table after the call.  commit_ok is whether
\* the commit of the added rows succeeds; when it fails they are rolled back.
_queue_notifications(q, ps, account_id, alert, alert_type, commit_ok) ==
    LET meta == _ALERT_META(alert_type)
        matched == SelectSeq(ps, LAMBDA pref : Eligible(pref, Owner(account_id), meta.category))
        added == [k \in 1..Len(matched) |->
                     QueueItem(Len(q) + k, alert.id, matched[k], meta.priority)]
    IN  IF commit_ok THEN q \o added ELSE q

\* Alert(...) as _upsert_alert and the detector build it
NewAlert(id, account_id, alert_type, threshold_percentage, message, t) ==
    [id |-> id, account_id |-> account_id, alert_type |-> alert_type,
     threshold_percentage |-> threshold_percentage, is_active |-> TRUE,
     is_acknowledged |-> FALSE, last_triggered |-> <<t>>,
     notification_method |-> "dashboard", message |-> message]

\* the lookup without is_acknowledged=False
Unacknowledged_Any(al, account_id, alert_type) ==
    {i \in 1..Len(al) : al[i].account_id = account_id /\ al[i].alert_type = alert_type}

\* Alert.query.filter_by(account_id, alert_type, is_acknowledged=False)
Unacknowledged(al, account_id, alert_type) ==
    {i \in 1..Len(al) :
        /\ al[i].account_id = account_id
        /\ al[i].alert_type = alert_type
        /\ ~ al[i].is_acknowledged}

\* _upsert_alert that inserts without looking for an existing row
_upsert_alert_Insert(st, ps, account_id, alert_type, threshold_percentage, message, t, commit_ok) ==
    LET alert == NewAlert(Len(st.alerts) + 1, account_id, alert_type,
                          threshold_percentage, message, t)
    IN  [alerts |-> Append(st.alerts, alert),
         queue |-> _queue_notifications(st.queue, ps, account_id, alert,
                                        alert_type, commit_ok)]

\* _upsert_alert that fans out on the update branch too
_upsert_alert_Refans(st, ps, account_id, alert_type, threshold_percentage, message, t, commit_ok) ==
    LET found == Unacknowledged(st.alerts, account_id, alert_type)
        existing == CHOOSE i \in found : \A j \in found : i <= j
        alert == NewAlert(Len(st.alerts) + 1, account_id, alert_type,
                          threshold_percentage, message, t)
    IN  IF found # {}
        THEN [alerts |-> [st.alerts EXCEPT ![existing].last_triggered = <<t>>,
                                           ![existing].message = message],
              queue |-> _queue_notifications(st.queue, ps, account_id,
                                             st.alerts[existing], alert_type, commit_ok)]
        ELSE [alerts |-> Append(st.alerts, alert),
              queue |-> _queue_notifications(st.queue, ps, account_id, alert,
                                             alert_type, commit_ok)]

\* _upsert_alert on the tables st = [alerts, queue]; .first() has no ORDER BY
\* and is taken to return the row of lowest id
_upsert_alert(st, ps, account_id, alert_type, threshold_percentage, message, t, commit_ok) ==
    LET found == Unacknowledged(st.alerts, account_id, alert_type)
        existing == CHOOSE i \in found : \A j \in found : i <= j
        alert == NewAlert(Len(st.alerts) + 1, account_id, alert_type,
                          threshold_percentage, message, t)
    IN  IF found # {}
        THEN [alerts |-> [st.alerts EXCEPT ![existing].last_triggered = <<t>>,
                                           ![existing].message = message],
              queue |-> st.queue]
        ELSE [alerts |-> Append(st.alerts, alert),
              queue |-> _queue_notifications(st.queue, ps, account_id, alert,
                                             alert_type, commit_ok)]

\* usage_pct >= pct, for usage_pct = monthly_cost / monthly_limit * 100 and
\* monthly_limit > 0.  The Decimal quotient carries 28 digits, which is exact
\* enough for the comparison on every Numeric(10,4) amount.
Reaches(monthly_cost, monthly_limit, pct) ==
    monthly_cost * 100 >= pct * monthly_limit

\* the f-string of a tier: it embeds the account, the cost and the limit
BudgetMessage(alert_type, account_id, monthly_cost, monthly_limit) ==
    <<alert_type, account_id, monthly_cost, monthly_limit>>

\* check_and_generate_alerts firing only the highest tier reached
check_and_generate_alerts_Ladder(st, ps, account_id, monthly_cost, monthly_limit, t, fans) ==
    IF monthly_limit = NoLimit THEN st
    ELSE IF monthly_limit[1] <= 0 THEN st
    ELSE
      LET tier(s, k) ==
              IF Reaches(monthly_cost, monthly_limit[1], Tiers[k].threshold_percentage)
              THEN _upsert_alert(s, ps, account_id, Tiers[k].alert_type,
                       Tiers[k].threshold_percentage,
                       BudgetMessage(Tiers[k].alert_type, account_id,
                                     monthly_cost, monthly_limit[1]),
                       t, fans[k])
              ELSE s
      IN  IF Reaches(monthly_cost, monthly_limit[1], 100) THEN tier(st, 3)
          ELSE IF Reaches(monthly_cost, monthly_limit[1], 90) THEN tier(st, 2)
          ELSE tier(st, 1)

\* check_and_generate_alerts on the tables st; fans[k] is whether the commit of
\* tier k's fan-out succeeds
check_and_generate_alerts(st, ps, account_id, monthly_cost, monthly_limit, t, fans) ==
    IF monthly_limit = NoLimit THEN st
    ELSE IF monthly_limit[1] <= 0 THEN st
    ELSE
      LET tier(s, k) ==
              IF Reaches(monthly_cost, monthly_limit[1], Tiers[k].threshold_percentage)
              THEN _upsert_alert(s, ps, account_id, Tiers[k].alert_type,
                       Tiers[k].threshold_percentage,
                       BudgetMessage(Tiers[k].alert_type, account_id,
                                     monthly_cost, monthly_limit[1]),
                       t, fans[k])
              ELSE s
      IN  tier(tier(tier(st, 1), 2), 3)

---------------------------------------------------------------------------
(* Anomaly detector: services/anomaly_detector.py.                          *)
(*                                                                          *)
(* Amounts are Numeric(10,4) in the tables, here whole cents.  The detector *)
(* computes on Python floats: binary floating point, round to nearest, ties *)
(* to even.  A float is modelled by the integer number of 2^-FracBits       *)
(* dollars it stands for, with MantissaBits significant bits (53 in the     *)
(* program).  The conversion from cents, the additions of np.mean, its      *)
(* division and the subtractions round as floats do; from the deviations on *)
(* the arithmetic is exact: the sum of their squares is 0 iff each of them  *)
(* is 0, as in the program, where those squares do not underflow.           *)

\* AnomalyDetectionConfig.sensitivity counts half sigmas here: 2.0 is 4
DEFAULT_SENSITIVITY == 4

DEFAULT_BASELINE_DAYS == 30

MIN_HISTORY_DAYS == 7

RECURSIVE Pow2(_)
Pow2(k) == IF k = 0 THEN 1 ELSE 2 * Pow2(k - 1)

RECURSIVE BitLen(_)
BitLen(n) == IF n = 0 THEN 0 ELSE 1 + BitLen(n \div 2)

\* the multiple of q nearest to a / b, ties to the even multiple (a >= 0, b > 0)
RoundDiv(a, b, q) ==
    LET d == b * q
        f == a \div d
        r == a % d
    IN  IF 2 * r < d THEN f * q
        ELSE IF 2 * r > d THEN (f + 1) * q
        ELSE IF f % 2 = 0 THEN f * q ELSE (f + 1) * q

\* the float nearest to a / b (a >= 0, b > 0)
FloatDiv(a, b) ==
    LET n == BitLen(a \div b)
        q == IF n > MantissaBits THEN Pow2(n - MantissaBits) ELSE 1
    IN  RoundDiv(a, b, q)

\* float(row.total_cost) of an amount in cents
FloatOf(cents) == FloatDiv(cents * Pow2(FracBits), 100)

\* x + y on floats x, y >= 0
FAdd(x, y) == FloatDiv(x + y, 1)

\* x - y on floats
FSub(x, y) == IF x >= y THEN FloatDiv(x - y, 1) ELSE 0 - FloatDiv(y - x, 1)

\* the sum of np.mean: acc plus arr[k..], each addition rounded
\* (no sum is negative; the test has each partial sum computed in turn)
RECURSIVE FSum(_, _, _)
FSum(arr, k, acc) ==
    IF k > Len(arr) THEN acc
    ELSE LET next == FAdd(acc, arr[k])
         IN  IF next >= 0 THEN FSum(arr, k + 1, next) ELSE 0

\* np.mean(arr)
Mean(arr) == FloatDiv(FSum(arr, 1, 0), Len(arr))

\* acc plus the squared deviations of arr[k..] from the mean
RECURSIVE SumSq(_, _, _, _)
SumSq(arr, mean, k, acc) ==
    IF k > Len(arr) THEN acc
    ELSE LET next == acc + FSub(arr[k], mean) * FSub(arr[k], mean)
         IN  IF next >= 0 THEN SumSq(arr, mean, k + 1, next) ELSE 0

\* abs(z) >= h / 2, for z = dev / std and std = sqrt(sumsq / (n - 1)), sumsq > 0
AbsZAtLeast(dev, sumsq, n, h) == 4 * dev * dev * (n - 1) >= h * h * sumsq

\* abs(z) > h / 2
AbsZAbove(dev, sumsq, n, h) == 4 * dev * dev * (n - 1) > h * h * sumsq

\* _severity_from_z without abs()
_severity_from_z_Signed(dev, sumsq, n) ==
    IF dev >= 0 /\ AbsZAtLeast(dev, sumsq, n, 8) THEN "critical"
    ELSE IF dev >= 0 /\ AbsZAtLeast(dev, sumsq, n, 6) THEN "high"
    ELSE IF dev >= 0 /\ AbsZAtLeast(dev, sumsq, n, 4) THEN "medium"
    ELSE "low"

\* _severity_from_z
_severity_from_z(dev, sumsq, n) ==
    IF AbsZAtLeast(dev, sumsq, n, 8) THEN "critical"
    ELSE IF AbsZAtLeast(dev, sumsq, n, 6) THEN "high"
    ELSE IF AbsZAtLeast(dev, sumsq, n, 4) THEN "medium"
    ELSE "low"

\* _fetch_daily_costs: {date: float(total_cost)} for the dates in [start, end]
_fetch_daily_costs(u, start, end) ==
    [d \in {x \in DOMAIN u : x >= start /\ x <= end} |-> FloatOf(u[d])]

\* the baseline sample of _evaluate_day: for i in range(1, baseline_days + 1),
\* the cost of target_date - i where there is one (no cost is negative, so -1
\* can mark the days without one)
BaselineValues(daily_costs, target_date, baseline_days) ==
    SelectSeq([i \in 1..baseline_days |->
                  IF target_date - i \in DOMAIN daily_costs
                  THEN daily_costs[target_date - i] ELSE 0 - 1],
              LAMBDA x : x >= 0)

\* no anomaly for the day (_evaluate_day returns None)
NoAnomaly == <<>>

\* _evaluate_day without the zero-std guard
Verdict_NoGuard(daily_cost, mean, sumsq, dev, n, sensitivity) ==
    IF ~ AbsZAbove(dev, sumsq, n, sensitivity) THEN NoAnomaly
    ELSE [daily_cost |-> daily_cost, baseline_mean |-> mean,
          baseline_std |-> <<sumsq, n - 1>>,
          z_score |-> <<dev, sumsq, n - 1>>,
          cost_delta |-> dev,
          severity |-> _severity_from_z(dev, sumsq, n),
          description |-> <<daily_cost, dev, mean, sumsq, n - 1>>]

\* _evaluate_day from `if std == 0` to the upsert: the statistics of the day,
\* or NoAnomaly.  The standard deviation is kept as its square
\* <<sumsq, n - 1>>, the z-score as <<dev, sumsq, n - 1>> for
\* dev / sqrt(sumsq / (n - 1)).
Verdict(daily_cost, mean, sumsq, dev, n, sensitivity) ==
    IF sumsq = 0 THEN NoAnomaly
    ELSE IF ~ AbsZAbove(dev, sumsq, n, sensitivity) THEN NoAnomaly
    ELSE [daily_cost |-> daily_cost, baseline_mean |-> mean,
          baseline_std |-> <<sumsq, n - 1>>,
          z_score |-> <<dev, sumsq, n - 1>>,
          cost_delta |-> dev,
          severity |-> _severity_from_z(dev, sumsq, n),
          description |-> <<daily_cost, dev, mean, sumsq, n - 1>>]

\* _evaluate_day up to the upsert
Statistics(daily_costs, target_date, sensitivity, baseline_days) ==
    IF target_date \notin DOMAIN daily_costs THEN NoAnomaly
    ELSE
      LET judge(daily_cost, arr) ==
              IF Len(arr) < MIN_HISTORY_DAYS THEN NoAnomaly
              ELSE LET score(mean) ==
                           Verdict(daily_cost, mean, SumSq(arr, mean, 1, 0),
                                   FSub(daily_cost, mean), Len(arr), sensitivity)
                   IN  score(Mean(arr))
      IN  judge(daily_costs[target_date],
                BaselineValues(daily_costs, target_date, baseline_days))

\* DetectedAnomaly.query.filter_by(account_id, anomaly_date)
AnomalyRows(an, account_id, target_date) ==
    {i \in 1..Len(an) : an[i].account_id = account_id /\ an[i].anomaly_date = target_date}

\* the upsert whose update branch resets is_acknowledged
UpsertAnomaly_Reopens(an, account_id, target_date, stats, t, commit_ok) ==
    LET found == AnomalyRows(an, account_id, target_date)
        existing == CHOOSE i \in found : \A j \in found : i <= j
        row == [id |-> Len(an) + 1, account_id |-> account_id,
                anomaly_date |-> target_date, is_acknowledged |-> FALSE,
                detected_at |-> <<t>>] @@ stats
    IN  IF found # {}
        THEN [anomalies |-> [an EXCEPT ![existing] =
                  [id |-> @.id, account_id |-> @.account_id,
                   anomaly_date |-> @.anomaly_date,
                   is_acknowledged |-> FALSE,
                   detected_at |-> <<t>>] @@ stats],
              returns |-> <<existing>>]
        ELSE IF commit_ok
        THEN [anomalies |-> Append(an, row), returns |-> <<Len(an) + 1>>]
        ELSE [anomalies |-> an, returns |-> <<>>]

\* _evaluate_day, the upsert: the table after it and the id of the row it
\* returns (none when the insert's commit fails and is rolled back)
UpsertAnomaly(an, account_id, target_date, stats, t, commit_ok) ==
    LET found == AnomalyRows(an, account_id, target_date)
        existing == CHOOSE i \in found : \A j \in found : i <= j
        row == [id |-> Len(an) + 1, account_id |-> account_id,
                anomaly_date |-> target_date, is_acknowledged |-> FALSE,
                detected_at |-> <<t>>] @@ stats
    IN  IF found # {}
        THEN [anomalies |-> [an EXCEPT ![existing] =
                  [id |-> @.id, account_id |-> @.account_id,
                   anomaly_date |-> @.anomaly_date,
                   is_acknowledged |-> @.is_acknowledged,
                   detected_at |-> @.detected_at] @@ stats],
              returns |-> <<existing>>]
        ELSE IF commit_ok
        THEN [anomalies |-> Append(an, row), returns |-> <<Len(an) + 1>>]
        ELSE [anomalies |-> an, returns |-> <<>>]

\* the days of [start, end] that _evaluate_day finds anomalous, in the order
\* the while loop of detect_anomalies comes to them
AnomalousDays(daily_costs, start, end_dt, sensitivity, baseline_days) ==
    SelectSeq([k \in 1..(end_dt - start + 1) |-> start + k - 1],
              LAMBDA d : Statistics(daily_costs, d, sensitivity, baseline_days) # NoAnomaly)

\* the upserts of the while loop for the anomalous days[k..]: the table after
\* them and the ids of the rows collected, after those in `returns`; the
\* insert of day `bad` fails to commit.  A day that is not anomalous changes
\* nothing.
RECURSIVE EvaluateDays(_, _, _, _, _, _, _, _, _, _)
EvaluateDays(an, account_id, daily_costs, days, k, sensitivity, baseline_days, t, bad, returns) ==
    IF k > Len(days) THEN [anomalies |-> an, returns |-> returns]
    ELSE
      LET next(one) ==
              EvaluateDays(one.anomalies, account_id, daily_costs, days, k + 1,
                           sensitivity, baseline_days, t, bad, returns \o one.returns)
      IN  next(UpsertAnomaly(an, account_id, days[k],
                   Statistics(daily_costs, days[k], sensitivity, baseline_days),
                   t, days[k] # bad))

\* _queue_anomaly_notifications without `if anomaly.is_acknowledged: continue`
RECURSIVE _queue_anomaly_notifications_All(_, _, _, _, _, _, _, _)
_queue_anomaly_notifications_All(st, ps, an, account_id, ids, k, t, commit_ok) ==
    IF k > Len(ids) THEN st
    ELSE
      LET anomaly == an[ids[k]]
          found == Unacknowledged(st.alerts, account_id, "unusual_activity")
          existing_alert == CHOOSE i \in found : \A j \in found : i <= j
          alert == NewAlert(Len(st.alerts) + 1, account_id, "unusual_activity", 0,
                            anomaly.description, t)
          next == IF found # {}
                  THEN [alerts |-> [st.alerts EXCEPT
                                       ![existing_alert].last_triggered = <<t>>,
                                       ![existing_alert].message = anomaly.description],
                        queue |-> st.queue]
                  ELSE [alerts |-> Append(st.alerts, alert),
                        queue |-> _queue_notifications(st.queue, ps, account_id, alert,
                                                       "unusual_activity", commit_ok)]
      IN  _queue_anomaly_notifications_All(next, ps, an, account_id, ids, k + 1, t,
                                           commit_ok)

\* _queue_anomaly_notifications over the anomalies ids[k..]: the tables
\* st = [alerts, queue] after it
RECURSIVE _queue_anomaly_notifications(_, _, _, _, _, _, _, _)
_queue_anomaly_notifications(st, ps, an, account_id, ids, k, t, commit_ok) ==
    IF k > Len(ids) THEN st
    ELSE
      LET anomaly == an[ids[k]]
          found == Unacknowledged(st.alerts, account_id, "unusual_activity")
          existing_alert == CHOOSE i \in found : \A j \in found : i <= j
          alert == NewAlert(Len(st.alerts) + 1, account_id, "unusual_activity", 0,
                            anomaly.description, t)
          next == IF anomaly.is_acknowledged THEN st
                  ELSE IF found # {}
                  THEN [alerts |-> [st.alerts EXCEPT
                                       ![existing_alert].last_triggered = <<t>>,
                                       ![existing_alert].message = anomaly.description],
                        queue |-> st.queue]
                  ELSE [alerts |-> Append(st.alerts, alert),
                        queue |-> _queue_notifications(st.queue, ps, account_id, alert,
                                                       "unusual_activity", commit_ok)]
      IN  _queue_anomaly_notifications(next, ps, an, account_id, ids, k + 1, t, commit_ok)

\* date_range None: the last 30 days up to today
NoRange == <<>>

\* _parse_date_range
_parse_date_range(date_range, today) ==
    IF date_range = NoRange THEN <<today - 30, today>> ELSE date_range

\* detect_anomalies from _parse_date_range on
RunDetection(st, ps, u, sensitivity, baseline_days, account_id, date_range, today, t, bad, commit_ok) ==
    LET range == _parse_date_range(date_range, today)
        daily_costs == _fetch_daily_costs(u, range[1] - (baseline_days + 1), range[2])
        finish(days, told) ==
            [alerts |-> told.alerts, queue |-> told.queue,
             anomalies |-> days.anomalies,
             result |-> [k \in 1..Len(days.returns) |-> days.anomalies[days.returns[k]]]]
        notify(days) ==
            finish(days,
                   IF days.returns = <<>> THEN [alerts |-> st.alerts, queue |-> st.queue]
                   ELSE _queue_anomaly_notifications(
                            [alerts |-> st.alerts, queue |-> st.queue], ps,
                            days.anomalies, account_id, days.returns, 1, t, commit_ok))
    IN  IF DOMAIN daily_costs = {}
        THEN [alerts |-> st.alerts, queue |-> st.queue, anomalies |-> st.anomalies,
              result |-> <<>>]
        ELSE notify(EvaluateDays(st.anomalies, account_id, daily_costs,
                        AnomalousDays(daily_costs, range[1], range[2], sensitivity,
                                      baseline_days),
                        1, sensitivity, baseline_days, t, bad, <<>>))

\* detect_anomalies that ignores is_enabled
detect_anomalies_AlwaysOn(st, ps, u, cfg, account_id, date_range, today, t, bad, commit_ok) ==
    RunDetection(st, ps, u,
        IF cfg # NoConfig THEN cfg.sensitivity ELSE DEFAULT_SENSITIVITY,
        IF cfg # NoConfig THEN cfg.baseline_days ELSE DEFAULT_BASELINE_DAYS,
        account_id, date_range, today, t, bad, commit_ok)

\* detect_anomalies on the tables st = [alerts, queue, anomalies]: the tables
\* after the call and the list it returns
detect_anomalies(st, ps, u, cfg, account_id, date_range, today, t, bad, commit_ok) ==
    IF cfg # NoConfig /\ ~ cfg.is_enabled
    THEN [alerts |-> st.alerts, queue |-> st.queue, anomalies |-> st.anomalies,
          result |-> <<>>]
    ELSE RunDetection(st, ps, u,
             IF cfg # NoConfig THEN cfg.sensitivity ELSE DEFAULT_SENSITIVITY,
             IF cfg # NoConfig THEN cfg.baseline_days ELSE DEFAULT_BASELINE_DAYS,
             account_id, date_range, today, t, bad, commit_ok)

---------------------------------------------------------------------------
(* The entry points of the alert rules and of the detector, and what they   *)
(* are called with.                                                         *)

\* monthly_cost and monthly_limit, in dollars
Costs == {139, 140, 180, 200}

Limits == {NoLimit, <<0 - 200>>, <<0>>, <<200>>}

\* the budget evaluations: <<account_id, monthly_cost, monthly_limit>>
Evaluations ==
    ({1} \X Costs \X {<<200>>}) \cup ({1} \X {200} \X Limits) \cup {<<2, 200, <<200>>>>}

\* which of the three fan-out commits of an evaluation succeed
Fans == {[k \in 1..3 |-> TRUE], [k \in 1..3 |-> k # 2]}

\* the date of the run (datetime.now(timezone.utc).date()), a day number
Today == 32

\* date_range arguments: one day, two days (and NoRange, the default)
DateRanges == {<<31, 31>>, <<30, 31>>}

\* the preferences of the two users: user 1 takes everything by email, budget
\* alerts by slack, has a discord row without webhook_url and a disabled teams
\* row; user 2 has an email row with an empty address, takes anomaly and
\* system alerts by slack and has a teams row with neither config nor
\* alert_types
AllPrefs ==
    <<[user_id |-> 1, channel |-> "email", enabled |-> TRUE,
       config |-> [address |-> "a@x"], alert_types |-> {}],
      [user_id |-> 1, channel |-> "slack", enabled |-> TRUE,
       config |-> [webhook_url |-> "https://s/1"], alert_types |-> {"budget"}],
      [user_id |-> 1, channel |-> "discord", enabled |-> TRUE,
       config |-> [address |-> "a@x"], alert_types |-> {}],
      [user_id |-> 1, channel |-> "teams", enabled |-> FALSE,
       config |-> [webhook_url |-> "https://t/1"], alert_types |-> {}],
      [user_id |-> 2, channel |-> "email", enabled |-> TRUE,
       config |-> [address |-> ""], alert_types |-> {}],
      [user_id |-> 2, channel |-> "slack", enabled |-> TRUE,
       config |-> [webhook_url |-> "https://s/2"],
       alert_types |-> {"anomaly", "system"}],
      [user_id |-> 2, channel |-> "teams", enabled |-> TRUE,
       config |-> <<>>, alert_types |-> {}]>>

\* daily totals in cents, by day number
\* 30 days of $5.00, then $100.00
FlatThenSpike == [d \in 1..31 |-> IF d = 31 THEN 10000 ELSE 500]

\* 30 days of $12.34, then $20.00
FlatOddThenRise == [d \in 1..31 |-> IF d = 31 THEN 2000 ELSE 1234]

\* 31 days of $10.00
FlatThroughout == [d \in 1..31 |-> 1000]

\* 30 days of $4.50 or $5.50, then $100.00
JitterThenSpike ==
    [d \in 1..31 |-> IF d = 31 THEN 10000 ELSE IF d % 2 = 0 THEN 550 ELSE 450]

\* 29 such days, then two days of $100.00
TwoSpikes ==
    [d \in 1..31 |-> IF d >= 30 THEN 10000 ELSE IF d % 2 = 0 THEN 550 ELSE 450]

\* a week of $4.50 or $5.50, then two days of $100.00
WeekThenSpikes ==
    [d \in 23..31 |-> IF d >= 30 THEN 10000 ELSE IF d % 2 = 0 THEN 550 ELSE 450]

\* five days of usage only
ShortHistory == [d \in 27..31 |-> IF d = 31 THEN 10000 ELSE 500]

\* no usage_records at all
NoUsage == <<>>

Profiles ==
    {FlatThenSpike, FlatOddThenRise, FlatThroughout, JitterThenSpike, TwoSpikes,
     ShortHistory, NoUsage}

\* anomaly_detection_configs rows: none, the defaults switched off, and two
\* switched on
Configs ==
    {NoConfig,
     [sensitivity |-> 4, baseline_days |-> 30, is_enabled |-> FALSE],
     [sensitivity |-> 3, baseline_days |-> 7, is_enabled |-> TRUE],
     [sensitivity |-> 5, baseline_days |-> 30, is_enabled |-> TRUE]}

\* sync_usage calls check_and_generate_alerts(account, monthly_cost, monthly_limit)
CheckAndGenerateAlerts(account_id, monthly_cost, monthly_limit, fans) ==
    LET st == check_and_generate_alerts([alerts |-> alerts, queue |-> queue], prefs,
                  account_id, monthly_cost, monthly_limit, now, fans)
    IN  /\ Len(st.alerts) <= MaxAlerts
        /\ Len(st.queue) <= MaxQueued
        /\ alerts' = st.alerts
        /\ queue' = st.queue
        /\ returned' = [op |-> "check_and_generate_alerts"]
        /\ UNCHANGED <<history, now, sessionVars, anomalies, usage, config, prefs, runs>>

\* POST /api/analytics/anomalies/<account_id>/detect and the scheduled run
DetectAnomalies(account_id, date_range, bad, commit_ok) ==
    LET done(st) ==
            /\ Len(st.alerts) <= MaxAlerts
            /\ Len(st.queue) <= MaxQueued
            /\ alerts' = st.alerts
            /\ queue' = st.queue
            /\ anomalies' = st.anomalies
            /\ returned' = [op |-> "detect_anomalies", result |-> st.result]
            /\ UNCHANGED <<history, now, sessionVars, usage, config, prefs, runs>>
    IN  done(detect_anomalies(
                 [alerts |-> alerts, queue |-> queue, anomalies |-> anomalies],
                 prefs, usage[account_id], config[account_id], account_id,
                 date_range, Today, now, bad, commit_ok))

\* POST /api/alerts/<alert_id>/acknowledge by user_id
AcknowledgeAlert(user_id, alert_id) ==
    /\ IF alert_id \in 1..Len(alerts) /\ Owner(alerts[alert_id].account_id) = user_id
       THEN /\ alerts' = [alerts EXCEPT ![alert_id].is_acknowledged = TRUE]
            /\ returned' = [op |-> "acknowledge_alert", code |-> 200]
       ELSE /\ alerts' = alerts
            /\ returned' = [op |-> "acknowledge_alert", code |-> 404]
    /\ UNCHANGED <<queue, history, now, sessionVars, anomalies, usage, config, prefs, runs>>

\* POST /api/analytics/anomalies/<anomaly_id>/acknowledge by user_id
AcknowledgeAnomaly(user_id, anomaly_id) ==
    /\ IF /\ anomaly_id \in 1..Len(anomalies)
          /\ Owner(anomalies[anomaly_id].account_id) = user_id
       THEN /\ anomalies' = [anomalies EXCEPT ![anomaly_id].is_acknowledged = TRUE]
            /\ returned' = [op |-> "acknowledge_anomaly", code |-> 200]
       ELSE /\ anomalies' = anomalies
            /\ returned' = [op |-> "acknowledge_anomaly", code |-> 404]
    /\ UNCHANGED <<queue, history, now, sessionVars, alerts, usage, config, prefs, runs>>

\* the alert rules at work: budget evaluations of both accounts, detector runs
\* on account 1's usage, acknowledgements
InitAlerts ==
    /\ queue = <<>>
    /\ history = <<>>
    /\ now = 0
    /\ pc = [d \in Dispatchers |-> "idle"]
    /\ batch = [d \in Dispatchers |-> <<>>]
    /\ expired = [d \in Dispatchers |-> FALSE]
    /\ item = [d \in Dispatchers |-> <<>>]
    /\ newhist = [d \in Dispatchers |-> <<>>]
    /\ outcome = [d \in Dispatchers |-> "none"]
    /\ lost = {}
    /\ alerts = <<>>
    /\ anomalies = <<>>
    /\ usage = [a \in Accounts |-> IF a = 1 THEN WeekThenSpikes ELSE NoUsage]
    /\ config = [a \in Accounts |->
                    IF a = 1 THEN [sensitivity |-> 4, baseline_days |-> 7,
                                   is_enabled |-> TRUE]
                    ELSE NoConfig]
    /\ prefs = AllPrefs
    /\ returned = NoCall
    /\ runs = [r \in Runs |-> NoRun]

NextAlerts ==
    \/ \E e \in Evaluations, f \in Fans : CheckAndGenerateAlerts(e[1], e[2], e[3], f)
    \/ \E a \in Accounts, ok \in BOOLEAN : DetectAnomalies(a, <<30, 31>>, 0, ok)
    \/ \E u \in Accounts, i \in 1..MaxAlerts : AcknowledgeAlert(u, i)
    \/ now < MaxRuleTime /\ Tick

SpecAlerts == InitAlerts /\ [][NextAlerts]_vars

\* the detector at work on account 1, over the usage profiles and configs
InitDetector ==
    /\ queue = <<>>
    /\ history = <<>>
    /\ now = 0
    /\ pc = [d \in Dispatchers |-> "idle"]
    /\ batch = [d \in Dispatchers |-> <<>>]
    /\ expired = [d \in Dispatchers |-> FALSE]
    /\ item = [d \in Dispatchers |-> <<>>]
    /\ newhist = [d \in Dispatchers |-> <<>>]
    /\ outcome = [d \in Dispatchers |-> "none"]
    /\ lost = {}
    /\ alerts = <<>>
    /\ anomalies = <<>>
    /\ \E u \in Profiles : usage = [a \in Accounts |-> IF a = 1 THEN u ELSE NoUsage]
    /\ \E c \in Configs : config = [a \in Accounts |-> IF a = 1 THEN c ELSE NoConfig]
    /\ prefs = AllPrefs
    /\ returned = NoCall
    /\ runs = [r \in Runs |-> NoRun]

NextDetector ==
    \/ \E a \in Accounts, r \in DateRanges, bad \in {0, 31} :
          DetectAnomalies(a, r, bad, TRUE)
    \/ \E a \in Accounts : DetectAnomalies(a, NoRange, 0, TRUE)
    \/ \E u \in Accounts, i \in 1..2 : AcknowledgeAnomaly(u, i)
    \/ now < MaxRuleTime /\ Tick

SpecDetector == InitDetector /\ [][NextDetector]_vars

---------------------------------------------------------------------------
(* _severity_from_z on its own: it is called with a z-score                 *)
(* dev / sqrt(sumsq / (n - 1)) and returns the severity.                    *)

\* the deviations, in whole dollars
Deviations == (0 - 13)..13

\* the sums of squares and the sample sizes of the baseline
SumsOfSquares == 1..4

SampleSizes == {2, 3}

\* a call _severity_from_z(z_score)
SeverityFromZ(dev, sumsq, n) ==
    /\ returned' = [op |-> "_severity_from_z", z_score |-> <<dev, sumsq, n - 1>>,
                    result |-> _severity_from_z(dev, sumsq, n)]
    /\ UNCHANGED <<queue, history, now, sessionVars, alerts, anomalies, usage,
                 config, prefs, runs>>

NextSeverity ==
    \E dev \in Deviations, sumsq \in SumsOfSquares, n \in SampleSizes :
        SeverityFromZ(dev, sumsq, n)

SpecSeverity == Init /\ [][NextSeverity]_vars

---------------------------------------------------------------------------
(* utils/forecasting.py: linear_forecast.  `data` maps a date (a day        *)
(* number) to the cost of the day, here in whole dollars.  The regression   *)
(* is computed exactly, on fractions, and a result is rounded where the     *)
(* code rounds it: predicted_cost and r_squared are counted in 10^-4,       *)
(* slope and intercept in 10^-6, confidence_pct in tenths of a percent.     *)
(* lower_bound and upper_bound, which need the square root of the residual  *)
(* variance, are not part of the forecast points here.                      *)

Max(a, b) == IF a >= b THEN a ELSE b

\* round(a / b, digits) counted in units of 10^-digits, for b > 0: to the
\* nearest unit, ties to even
RoundSigned(a, b) ==
    IF a >= 0 THEN RoundDiv(a, b, 1) ELSE 0 - RoundDiv(0 - a, b, 1)

\* sorted(data.keys())
RECURSIVE SortedKeys(_)
SortedKeys(S) ==
    IF S = {} THEN <<>>
    ELSE LET m == CHOOSE x \in S : \A y \in S : x <= y
         IN  <<m>> \o SortedKeys(S \ {m})

\* np.sum of the sequence from its k-th element on
RECURSIVE SumFrom(_, _)
SumFrom(seq, k) == IF k > Len(seq) THEN 0 ELSE seq[k] + SumFrom(seq, k + 1)

\* _empty_forecast
_empty_forecast(horizon) ==
    [forecast |-> <<>>, slope |-> 0, intercept |-> 0, r_squared |-> 0,
     data_points |-> 0, confidence_pct |-> 0]

\* linear_forecast from `if not data` on, horizon being clamped already.
\* With x = 0..n-1 and the costs y, least squares gives slope = sn / sd and
\* intercept = (sy * sd - sn * sx) / (n * sd); r_squared is
\* sn^2 / (sd * tot) where tot / n is the total sum of squares.
Fit(data, horizon) ==
    LET sorted_dates == SortedKeys(DOMAIN data)
        n == Len(sorted_dates)
        y == [k \in 1..n |-> data[sorted_dates[k]]]
        sx == (n * (n - 1)) \div 2
        sxx == ((n - 1) * n * (2 * n - 1)) \div 6
        sy == SumFrom(y, 1)
        sxy == SumFrom([k \in 1..n |-> (k - 1) * y[k]], 1)
        syy == SumFrom([k \in 1..n |-> y[k] * y[k]], 1)
        sn == n * sxy - sx * sy
        sd == n * sxx - sx * sx
        tot == n * syy - sy * sy
        last_date == sorted_dates[n]
        predicted(i) == Max(0, (sy * sd - sn * sx) + sn * n * (n - 1 + i))
    IN  IF DOMAIN data = {} THEN _empty_forecast(horizon)
        ELSE IF n < 2 THEN _empty_forecast(horizon)
        ELSE [forecast |->
                  [i \in 1..horizon |->
                      [date |-> last_date + i,
                       predicted_cost |-> RoundDiv(10000 * predicted(i), n * sd, 1)]],
              slope |-> RoundSigned(1000000 * sn, sd),
              intercept |-> RoundSigned(1000000 * (sy * sd - sn * sx), n * sd),
              r_squared |-> IF tot > 0 THEN RoundDiv(10000 * sn * sn, sd * tot, 1)
                            ELSE 0,
              data_points |-> n,
              confidence_pct |->
                  IF tot > 0
                  THEN RoundDiv(700 * sn * sn + 10 * Min(30, n) * sd * tot, sd * tot, 1)
                  ELSE 10 * Min(30, n)]

\* linear_forecast without the cap of the horizon at 90
linear_forecast_Uncapped(data, horizon) == Fit(data, Max(1, horizon))

\* linear_forecast
linear_forecast(data, horizon) == Fit(data, Min(Max(1, horizon), 90))

\* the histories: every map from some of the days 1, 2, 3 and 6 to a cost of
\* 0, 1 or 3 dollars
Histories ==
    UNION {[D -> {0, 1, 3}] : D \in SUBSET {1, 2, 3, 6}}

\* the horizons asked for
Horizons == {0 - 5, 0, 1, 7, 30, 89, 90, 91, 999}

\* one call linear_forecast(data, horizon)
LinearForecast(data, horizon) ==
    /\ returned = NoCall
    /\ runs = [r \in Runs |-> NoRun]
    /\ returned' = [op |-> "linear_forecast", data |-> data, horizon |-> horizon,
                    result |-> linear_forecast(data, horizon)]
    /\ UNCHANGED <<queue, history, now, sessionVars, alerts, anomalies, usage,
                 config, prefs, runs>>

NextForecast ==
    \E data \in Histories, horizon \in Horizons : LinearForecast(data, horizon)

SpecForecast == Init /\ [][NextForecast]_vars

---------------------------------------------------------------------------
\* Two dispatcher instances (two processes running process_pending, each with
\* its own session) on the same tables.  The queue holds what fan-out has
\* inserted: one more email row of user 1 than the hourly limit admits, and a
\* discord row of user 2.
SeededQueue ==
    [i \in 1..(PerHour + 2) |->
        IF i <= PerHour + 1 THEN NewItem(i, 1, "email", 1, i)
        ELSE NewItem(i, 2, "discord", 2, i)]

InitTwo ==
    /\ queue = SeededQueue
    /\ history = <<>>
    /\ now = 0
    /\ pc = [d \in Dispatchers |-> "idle"]
    /\ batch = [d \in Dispatchers |-> <<>>]
    /\ expired = [d \in Dispatchers |-> FALSE]
    /\ item = [d \in Dispatchers |-> <<>>]
    /\ newhist = [d \in Dispatchers |-> <<>>]
    /\ outcome = [d \in Dispatchers |-> "none"]
    /\ lost = {}
    /\ alerts = <<>>
    /\ anomalies = <<>>
    /\ usage = [a \in Accounts |-> <<>>]
    /\ config = [a \in Accounts |-> NoConfig]
    /\ prefs = <<>>
    /\ returned = NoCall
    /\ runs = [r \in Runs |-> NoRun]

NextTwo ==
    \/ Tick
    \/ \E d \in Dispatchers : Steps(d)

SpecTwo == InitTwo /\ [][NextTwo]_vars

---------------------------------------------------------------------------
(* detect_anomalies step by step, for runs that overlap.  A run reads the   *)
(* config and the usage when it begins; for each day it evaluates the day   *)
(* and queries the existing row (_evaluate_day up to the query), then       *)
(* assigns or adds the row and commits; after the last day it notifies and  *)
(* returns.  Other runs and requests take their steps in between.  The      *)
(* unique constraint uq_detected_anomaly_account_date makes the commit of   *)
(* an insert fail when a row of the same account and date has been          *)
(* committed since the query.                                               *)

\* eight days of $4.50 or $5.50 (days 23..30), then a day of $6.25: day 31 is
\* above 2.0 and below 2.5 standard deviations of either baseline window
MildRise ==
    [d \in 23..31 |-> IF d = 31 THEN 625 ELSE IF d % 2 = 0 THEN 550 ELSE 450]

\* what PUT /api/analytics/config/<account_id> may store
ConfigUpdates ==
    {[sensitivity |-> 4, baseline_days |-> 7, is_enabled |-> TRUE],
     [sensitivity |-> 4, baseline_days |-> 8, is_enabled |-> TRUE],
     [sensitivity |-> 5, baseline_days |-> 7, is_enabled |-> TRUE]}

\* PUT /api/analytics/config/<account_id>
UpdateConfig(account_id, cfg) ==
    /\ config' = [config EXCEPT ![account_id] = cfg]
    /\ returned' = [op |-> "update_config"]
    /\ UNCHANGED <<queue, history, now, sessionVars, alerts, anomalies, usage,
                 prefs, runs>>

\* detect_anomalies up to the while loop (lines 86-105)
BeginRun(r, account_id, date_range) ==
    LET cfg == config[account_id]
        sensitivity == IF cfg # NoConfig THEN cfg.sensitivity ELSE DEFAULT_SENSITIVITY
        baseline_days == IF cfg # NoConfig THEN cfg.baseline_days
                         ELSE DEFAULT_BASELINE_DAYS
        range == _parse_date_range(date_range, Today)
        daily_costs == _fetch_daily_costs(usage[account_id],
                           range[1] - (baseline_days + 1), range[2])
    IN  /\ runs[r].pc = "idle"
        /\ IF (cfg # NoConfig /\ ~ cfg.is_enabled) \/ DOMAIN daily_costs = {}
           THEN /\ runs' = [runs EXCEPT ![r] = NoRun]
                /\ returned' = [op |-> "detect_anomalies", result |-> <<>>]
           ELSE /\ runs' = [runs EXCEPT ![r] =
                       [pc |-> "evaluate", account_id |-> account_id,
                        sensitivity |-> sensitivity, baseline_days |-> baseline_days,
                        daily_costs |-> daily_costs, current |-> range[1],
                        end_dt |-> range[2], anomalies |-> <<>>,
                        stats |-> NoAnomaly, existing |-> NoRow]]
                /\ returned' = returned
        /\ UNCHANGED <<queue, history, now, sessionVars, alerts, anomalies, usage,
                     config, prefs>>

\* one turn of the while loop up to the query of the existing row
\* (_evaluate_day, lines 222-262): a day that is not anomalous is passed
\* over, an anomalous day is held with the row object the query loaded
EvaluateDay(r) ==
    LET run == runs[r]
        found == AnomalyRows(anomalies, run.account_id, run.current)
        hold(stats) ==
            runs' = [runs EXCEPT ![r] =
                IF stats = NoAnomaly
                THEN [run EXCEPT !.current = @ + 1, !.stats = NoAnomaly,
                                 !.existing = NoRow]
                ELSE [run EXCEPT !.pc = "commit", !.stats = stats,
                                 !.existing =
                                     IF found = {} THEN NoRow
                                     ELSE anomalies[CHOOSE i \in found :
                                                        \A j \in found : i <= j]]]
    IN  /\ run.pc = "evaluate"
        /\ run.current <= run.end_dt
        /\ hold(Statistics(run.daily_costs, run.current, run.sensitivity,
                           run.baseline_days))
        /\ UNCHANGED <<queue, history, now, sessionVars, alerts, anomalies, usage,
                     config, prefs, returned>>

\* the update branch also resetting is_acknowledged
AssignStatistics_Reopens(row, stats) ==
    [id |-> row.id, account_id |-> row.account_id,
     anomaly_date |-> row.anomaly_date, is_acknowledged |-> FALSE,
     detected_at |-> row.detected_at] @@ stats

\* the update branch (lines 265-271): the UPDATE the commit issues sets the
\* columns assigned and leaves the others as they are in the table
AssignStatistics(row, stats) ==
    [id |-> row.id, account_id |-> row.account_id,
     anomaly_date |-> row.anomaly_date, is_acknowledged |-> row.is_acknowledged,
     detected_at |-> row.detected_at] @@ stats

\* the commit of an insert that hits the unique constraint although the
\* query had found no row
UniqueViolation(an, account_id, target_date) ==
    AnomalyRows(an, account_id, target_date) # {}

\* the rest of the turn (_evaluate_day, lines 264-296): the existing row is
\* assigned and committed, or a new row is added and committed; an insert
\* whose commit fails is rolled back and the day yields no anomaly
CommitDay(r, commit_ok) ==
    LET run == runs[r]
        row == [id |-> Len(anomalies) + 1, account_id |-> run.account_id,
                anomaly_date |-> run.current, is_acknowledged |-> FALSE,
                detected_at |-> <<now>>] @@ run.stats
        next(ids) == [run EXCEPT !.pc = "evaluate", !.current = @ + 1,
                                 !.anomalies = @ \o ids]
    IN  /\ run.pc = "commit"
        /\ IF run.existing # NoRow
           THEN /\ commit_ok
                /\ anomalies' = [anomalies EXCEPT ![run.existing.id] =
                                     AssignStatistics(@, run.stats)]
                /\ runs' = [runs EXCEPT ![r] = next(<<run.existing.id>>)]
           ELSE IF commit_ok
                   /\ ~ UniqueViolation(anomalies, run.account_id, run.current)
           THEN /\ anomalies' = Append(anomalies, row)
                /\ runs' = [runs EXCEPT ![r] = next(<<Len(anomalies) + 1>>)]
           ELSE /\ anomalies' = anomalies
                /\ runs' = [runs EXCEPT ![r] = next(<<>>)]
        /\ UNCHANGED <<queue, history, now, sessionVars, alerts, usage, config,
                     prefs, returned>>

\* after the loop (lines 118-128): the notifications when there are
\* anomalies, and the return
FinishRun(r, commit_ok) ==
    LET run == runs[r]
        told == IF run.anomalies = <<>> THEN [alerts |-> alerts, queue |-> queue]
                ELSE _queue_anomaly_notifications(
                         [alerts |-> alerts, queue |-> queue], prefs, anomalies,
                         run.account_id, run.anomalies, 1, now, commit_ok)
    IN  /\ run.pc = "evaluate"
        /\ run.current > run.end_dt
        /\ Len(told.alerts) <= MaxAlerts
        /\ Len(told.queue) <= MaxQueued
        /\ alerts' = told.alerts
        /\ queue' = told.queue
        /\ returned' = [op |-> "detect_anomalies",
                        result |-> [k \in 1..Len(run.anomalies) |->
                                       anomalies[run.anomalies[k]]]]
        /\ runs' = [runs EXCEPT ![r] = NoRun]
        /\ UNCHANGED <<history, now, sessionVars, anomalies, usage, config, prefs>>

\* overlapping detector runs on account 1, with the config being updated and
\* anomalies being acknowledged; no commit fails but that of an insert that
\* hits the unique constraint
InitRuns ==
    /\ queue = <<>>
    /\ history = <<>>
    /\ now = 0
    /\ pc = [d \in Dispatchers |-> "idle"]
    /\ batch = [d \in Dispatchers |-> <<>>]
    /\ expired = [d \in Dispatchers |-> FALSE]
    /\ item = [d \in Dispatchers |-> <<>>]
    /\ newhist = [d \in Dispatchers |-> <<>>]
    /\ outcome = [d \in Dispatchers |-> "none"]
    /\ lost = {}
    /\ alerts = <<>>
    /\ anomalies = <<>>
    /\ usage = [a \in Accounts |-> IF a = 1 THEN MildRise ELSE NoUsage]
    /\ config = [a \in Accounts |-> NoConfig]
    /\ prefs = AllPrefs
    /\ returned = NoCall
    /\ runs = [r \in Runs |-> NoRun]

NextRuns ==
    \/ \E r \in Runs, a \in Accounts : BeginRun(r, a, <<31, 31>>)
    \/ \E r \in Runs : EvaluateDay(r)
    \/ \E r \in Runs : CommitDay(r, TRUE)
    \/ \E r \in Runs : FinishRun(r, TRUE)
    \/ \E cfg \in ConfigUpdates : UpdateConfig(1, cfg)
    \/ \E u \in Accounts : AcknowledgeAnomaly(u, 1)
    \/ now < MaxRuleTime /\ Tick

SpecRuns == InitRuns /\ [][NextRuns]_vars

---------------------------------------------------------------------------
\* the detector on account 1's usage with anomalies and alerts being
\* acknowledged between its runs
NextNotify ==
    \/ \E a \in Accounts, ok \in BOOLEAN : DetectAnomalies(a, <<30, 31>>, 0, ok)
    \/ \E u \in Accounts, i \in 1..2 : AcknowledgeAnomaly(u, i)
    \/ \E u \in Accounts, i \in 1..MaxAlerts : AcknowledgeAlert(u, i)
    \/ now < MaxRuleTime /\ Tick

SpecNotify == InitAlerts /\ [][NextNotify]_vars

---------------------------------------------------------------------------
(* One dispatcher over a queue that no longer grows, with cycles recurring  *)
(* and the clock advancing for ever.                                         *)

\* The clock of this specification is kept relative: can_send reads a
\* history row's created_at only through its distance to now, so an hour
\* passing moves every history row one hour back instead of moving now
\* forward, and rows older than both windows stay at StaleAt.
Clock == DaySpan + HourSpan

StaleAt == Clock - DaySpan - HourSpan

\* some row of the next fetch passes can_send
Dispatchable ==
    \E b \in FetchPending(queue) :
        \E k \in 1..Len(b) : can_send(history, b[k].user_id, b[k].channel, now)

\* An hour passes.  The job runs every five minutes and the clock counts
\* hours: the hour is over once the cycles in it have dispatched what the
\* rate limits allow.
Elapse ==
    /\ pc[1] = "idle"
    /\ ~ Dispatchable
    /\ history' = [k \in 1..Len(history) |->
                      [history[k] EXCEPT !.created_at = Max(@ - HourSpan, StaleAt)]]
    /\ UNCHANGED <<queue, now, pc, batch, expired, item, newhist, outcome, lost,
                 alerts, anomalies, usage, config, prefs, returned, runs>>

\* the queue after a fan-out: BatchLimit urgent email rows of user 1, and a
\* slack row of user 1 behind them
SettlingQueue ==
    [i \in 1..(BatchLimit + 1) |->
        IF i <= BatchLimit THEN NewItem(i, 1, "email", 3, i)
        ELSE NewItem(i, 1, "slack", 2, i)]

InitSettling ==
    /\ queue = SettlingQueue
    /\ history = <<>>
    /\ now = Clock
    /\ pc = [d \in Dispatchers |-> "idle"]
    /\ batch = [d \in Dispatchers |-> <<>>]
    /\ expired = [d \in Dispatchers |-> FALSE]
    /\ item = [d \in Dispatchers |-> <<>>]
    /\ newhist = [d \in Dispatchers |-> <<>>]
    /\ outcome = [d \in Dispatchers |-> "none"]
    /\ lost = {}
    /\ alerts = <<>>
    /\ anomalies = <<>>
    /\ usage = [a \in Accounts |-> <<>>]
    /\ config = [a \in Accounts |-> NoConfig]
    /\ prefs = <<>>
    /\ returned = NoCall
    /\ runs = [r \in Runs |-> NoRun]

\* _process_notifications up to the loop, the history table free to grow
FetchCycle(d) ==
    /\ pc[d] = "idle"
    /\ \E b \in FetchPending(queue) :
        /\ batch' = [batch EXCEPT ![d] = b]
        /\ pc' = [pc EXCEPT ![d] = IF b = <<>> THEN "idle" ELSE "loop"]
    /\ expired' = [expired EXCEPT ![d] = FALSE]
    /\ outcome' = [outcome EXCEPT ![d] = "none"]
    /\ UNCHANGED <<queue, history, now, item, newhist, lost,
                 alerts, anomalies, usage, config, prefs, returned, runs>>

\* the steps of a cycle, every commit succeeding
Cycle(d) ==
    \/ FetchCycle(d)
    \/ RateLimited(d)
    \/ BeginSend(d)
    \/ \E o \in SenderOutcomes : SenderReturns(d, o)
    \/ CommitOk(d)
    \/ EndCycle(d)

NextSettling ==
    \/ Cycle(1)
    \/ Elapse

\* the scheduler runs the job every five minutes and every step of a cycle
\* returns; time passes
SpecSettling ==
    /\ InitSettling
    /\ [][NextSettling]_vars
    /\ WF_vars(Cycle(1))
    /\ SF_vars(Elapse)

---------------------------------------------------------------------------
(* Vocabulary of the properties.  The single dispatcher is dispatcher 1. *)

Rows == 1..Len(queue)

PendingRows == {i \in Rows : queue[i].status = "pending"}

HourlyCount(user_id, channel) == CountSince(history, user_id, channel, now - HourSpan)

DailyCount(user_id, channel) == CountSince(history, user_id, channel, now - DaySpan)

Denied(user_id, channel) ==
    \/ HourlyCount(user_id, channel) >= ChannelLimits(channel).per_hour
    \/ DailyCount(user_id, channel) >= ChannelLimits(channel).per_day

\* history rows of queue row i with the given status
Trail(i, status) ==
    {k \in 1..Len(history) :
        history[k].notification_id = i /\ history[k].status = status}

\* the loop takes the next item of the batch
Visits == pc[1] = "loop" /\ batch[1] # <<>> /\ batch'[1] # batch[1]

\* the sender call of the current item returns or raises
SenderDone == pc[1] = "send" /\ pc'[1] = "commit"

\* the commit of the current item succeeds / fails
Committed == pc[1] = "commit" /\ outcome'[1] = "committed"

RolledBack == pc[1] = "commit" /\ outcome'[1] = "rolledback"

\* the commit appends exactly one history row, for the current item
OneRowWritten(status) ==
    /\ Len(history') = Len(history) + 1
    /\ SubSeq(history', 1, Len(history)) = history
    /\ history'[Len(history')].notification_id = item[1].id
    /\ history'[Len(history')].user_id = item[1].user_id
    /\ history'[Len(history')].channel = item[1].channel
    /\ history'[Len(history')].status = status

---------------------------------------------------------------------------
\* C1: a failed dispatch attempt (the sender returns false or raises) adds
\* exactly 1 to retry_count; the item becomes failed iff the new retry_count
\* is >= max_retries and otherwise stays pending; the commit stores just that.
RetryOnFailure ==
    [][ /\ (SenderDone /\ outcome'[1] # "ok") =>
              /\ item[1].status = "pending"
              /\ item'[1].retry_count = item[1].retry_count + 1
              /\ item'[1].max_retries = item[1].max_retries
              /\ (item'[1].status = "failed") <=>
                     (item'[1].retry_count >= item[1].max_retries)
              /\ item'[1].status \in {"pending", "failed"}
        /\ (Committed /\ outcome[1] \in {"false", "raise", "raise_empty"}) =>
              /\ queue'[item[1].id].retry_count = queue[item[1].id].retry_count + 1
              /\ (queue'[item[1].id].status = "failed") <=>
                     (queue'[item[1].id].retry_count >= queue[item[1].id].max_retries)
              /\ queue'[item[1].id].status \in {"pending", "failed"}
      ]_vars

\* one row failed by its last allowed attempt, another still pending after a failure
RetryWitness ==
    \E i, j \in Rows :
        /\ queue[i].status = "failed"
        /\ queue[i].retry_count = queue[i].max_retries
        /\ Cardinality(Trail(i, "failed")) = queue[i].max_retries
        /\ queue[j].status = "pending"
        /\ queue[j].retry_count > 0
        /\ queue[j].retry_count < queue[j].max_retries

\* C2: when can_send denies a pending item the dispatcher leaves it untouched:
\* no row and no history changes, no sender is called, nothing is pending in
\* the session, and the loop goes on to the next item.
RateLimitedUntouched ==
    [][ (Visits /\ Denied(Current(1).user_id, Current(1).channel)) =>
           /\ queue' = queue
           /\ history' = history
           /\ pc'[1] = "loop"
           /\ item' = item
           /\ newhist' = newhist /\ newhist[1] = <<>>
           /\ batch'[1] = Tail(batch[1])
      ]_vars

\* a row with earlier failed attempts was just skipped by the limiter and is
\* as the attempts left it
RateLimitedWitness ==
    /\ outcome[1] = "rate_limited"
    /\ \E i \in PendingRows :
          /\ queue[i].retry_count > 0
          /\ Denied(queue[i].user_id, queue[i].channel)
          /\ Cardinality(Trail(i, "failed")) = queue[i].retry_count

\* C3: while a sender is being called for an item of (user, channel), the
\* history rows of (user, channel) of the last hour are fewer than per_hour and
\* those of the last 24 hours fewer than per_day.
SendsWithinLimits ==
    pc[1] = "send" =>
        /\ HourlyCount(item[1].user_id, item[1].channel)
               < ChannelLimits(item[1].channel).per_hour
        /\ DailyCount(item[1].user_id, item[1].channel)
               < ChannelLimits(item[1].channel).per_day

\* a send admitted with the last free slot of the day, rows older than an hour
\* no longer counting against the hour
LastSlotWitness ==
    /\ pc[1] = "send"
    /\ DailyCount(item[1].user_id, item[1].channel)
           = ChannelLimits(item[1].channel).per_day - 1
    /\ HourlyCount(item[1].user_id, item[1].channel)
           < DailyCount(item[1].user_id, item[1].channel)

\* C4: a row stored as sent or failed is never changed again and no sender is
\* called for it; the rows the dispatcher changes were pending and end up
\* pending, sent or failed.
TerminalIsFinal ==
    [][ /\ \A i \in Rows :
              /\ queue[i].status \in {"sent", "failed"} => queue'[i] = queue[i]
              /\ queue'[i] # queue[i] =>
                     /\ queue[i].status = "pending"
                     /\ queue'[i].status \in {"pending", "sent", "failed"}
        /\ (pc'[1] = "send" /\ pc[1] # "send") =>
              queue[item'[1].id].status = "pending"
      ]_vars

\* a later cycle is sending while a sent row and a failed row exist (a batch
\* holds at most BatchLimit rows, so this is not the cycle that settled both)
TerminalWitness ==
    /\ pc[1] = "send"
    /\ \E i, j \in Rows : queue[i].status = "sent" /\ queue[j].status = "failed"

\* C5: when the sender returns success the item object has status sent,
\* sent_at set, error_message None and its retry_count unchanged, with one
\* history object of status sent added; the commit stores exactly that.
SuccessMarksSent ==
    /\ [](pc[1] = "commit" /\ outcome[1] = "ok" =>
            /\ item[1].status = "sent"
            /\ item[1].sent_at # NoTime
            /\ item[1].error_message = None
            /\ item[1].retry_count = queue[item[1].id].retry_count
            /\ Len(newhist[1]) = 1
            /\ newhist[1][1].status = "sent"
            /\ newhist[1][1].notification_id = item[1].id)
    /\ [][ (Committed /\ outcome[1] = "ok") =>
              /\ queue'[item[1].id].status = "sent"
              /\ queue'[item[1].id].sent_at # NoTime
              /\ queue'[item[1].id].error_message = None
              /\ queue'[item[1].id].retry_count = queue[item[1].id].retry_count
              /\ OneRowWritten("sent")
         ]_vars

\* a row sent after an earlier failed attempt had set its error_message
SentAfterFailureWitness ==
    \E i \in Rows :
        /\ queue[i].status = "sent"
        /\ queue[i].retry_count > 0
        /\ queue[i].error_message = None
        /\ queue[i].sent_at # NoTime
        /\ Cardinality(Trail(i, "failed")) = queue[i].retry_count
        /\ Cardinality(Trail(i, "sent")) = 1

\* C6: an admitted pending item whose channel has no sender is marked failed
\* at once: no sender call, retry_count unchanged, error_message naming the
\* channel, one history object of status failed; the commit stores that.
UnsupportedFailsAtOnce ==
    [][ /\ (/\ Visits
            /\ Current(1).channel \notin {"email", "slack"}
            /\ ~ Denied(Current(1).user_id, Current(1).channel)) =>
              /\ pc'[1] = "commit"
              /\ item'[1].id = Current(1).id
              /\ item'[1].status = "failed"
              /\ item'[1].retry_count = Current(1).retry_count
              /\ item'[1].error_message = UnsupportedReason(Current(1).channel)
              /\ Len(newhist'[1]) = 1
              /\ newhist'[1][1].status = "failed"
              /\ newhist'[1][1].notification_id = Current(1).id
        /\ (Committed /\ outcome[1] = "unsupported") =>
              /\ queue'[item[1].id].status = "failed"
              /\ queue'[item[1].id].retry_count = queue[item[1].id].retry_count
              /\ queue'[item[1].id].error_message
                     = UnsupportedReason(queue[item[1].id].channel)
              /\ OneRowWritten("failed")
      ]_vars

\* a discord row failed on its only dispatch
UnsupportedWitness ==
    \E i \in Rows :
        /\ queue[i].channel = "discord"
        /\ queue[i].status = "failed"
        /\ queue[i].retry_count = 0
        /\ queue[i].error_message = "Unsupported channel: discord"
        /\ Cardinality(Trail(i, "failed")) = 1

\* C7: the batch of a cycle is the first BatchLimit pending rows by priority
\* descending, then created_at ascending; the loop visits them in that order;
\* no other row is changed.
BatchInRankOrder ==
    [][ /\ (pc[1] = "idle" /\ pc'[1] = "loop") =>
              LET b == batch'[1]
                  ids == {b[k].id : k \in 1..Len(b)}
              IN  /\ Len(b) = Min(BatchLimit, Cardinality(PendingRows))
                  /\ Cardinality(ids) = Len(b)
                  /\ ids \subseteq PendingRows
                  /\ \A k \in 1..Len(b) : b[k] = queue[b[k].id]
                  /\ \A k, l \in 1..Len(b) : k < l =>
                        /\ b[k].priority >= b[l].priority
                        /\ b[k].priority = b[l].priority =>
                               b[k].created_at <= b[l].created_at
                  /\ \A i \in PendingRows \ ids : \A k \in 1..Len(b) :
                        /\ b[k].priority >= queue[i].priority
                        /\ b[k].priority = queue[i].priority =>
                               b[k].created_at <= queue[i].created_at
        /\ Visits =>
              /\ batch'[1] = Tail(batch[1])
              /\ pc'[1] # "loop" => item'[1].id = Head(batch[1]).id
        /\ \A i \in Rows :
              queue'[i] # queue[i] => pc[1] = "commit" /\ item[1].id = i
      ]_vars

\* a full batch just fetched, higher priority first although created later,
\* with a pending row left out
BatchWitness ==
    /\ pc[1] = "loop" /\ outcome[1] = "none"
    /\ Len(batch[1]) = BatchLimit
    /\ Cardinality(PendingRows) > BatchLimit
    /\ batch[1][1].priority > batch[1][Len(batch[1])].priority
    /\ batch[1][1].created_at > batch[1][Len(batch[1])].created_at

\* C8: a failed commit is caught: it changes no row and no history row, the
\* loop continues with the rest of the batch, and a cycle ends only when the
\* batch has been gone through.
CommitFailureKeepsBatch ==
    [][ /\ RolledBack =>
              /\ queue' = queue
              /\ history' = history
              /\ batch'[1] = batch[1]
              /\ pc'[1] = "loop"
        /\ (pc[1] # "idle" /\ pc'[1] = "idle") => (pc[1] = "loop" /\ batch[1] = <<>>)
        /\ Visits => batch'[1] = Tail(batch[1])
      ]_vars

\* after a failed commit in this cycle, a later item of the batch was committed
CommitFailureWitness ==
    /\ expired[1]
    /\ outcome[1] = "committed"
    /\ history # <<>>

\* C9: a commit that fails after the sender returned success leaves the row
\* and the history as they were: the row stays pending with its retry_count,
\* has no sent history row, and is among the rows the next fetch ranks, so it
\* is sent again.
LostDeliveryStaysPending ==
    /\ [][ (RolledBack /\ outcome[1] = "ok") =>
              /\ queue' = queue
              /\ history' = history
              /\ queue'[item[1].id].status = "pending"
              /\ item[1].id \in lost'
         ]_vars
    /\ [](\A i \in lost :
              /\ queue[i].status = "pending"
              /\ Trail(i, "sent") = {}
              /\ Cardinality(Trail(i, "failed")) = queue[i].retry_count
              /\ \A b \in FetchPending(queue) :
                    \/ \E k \in 1..Len(b) : b[k].id = i
                    \/ /\ Len(b) = BatchLimit
                       /\ \A k \in 1..Len(b) : ~ Precedes(queue[i], b[k]))

\* the sender has delivered a notification a second time
DuplicateDeliveryWitness ==
    /\ pc[1] = "commit"
    /\ outcome[1] = "ok"
    /\ item[1].id \in lost

\* C10: a row stored as failed has a non-empty error_message and a failed
\* history row; a row stored as sent has a sent history row.
TerminalHasTrail ==
    \A i \in Rows :
        /\ queue[i].status = "failed" =>
              /\ queue[i].error_message \notin {None, ""}
              /\ Trail(i, "failed") # {}
        /\ queue[i].status = "sent" => Trail(i, "sent") # {}

\* a row failed by a sender that returned false or raised without a message,
\* next to a sent row
TrailWitness ==
    \E i, j \in Rows :
        /\ queue[i].status = "failed"
        /\ queue[i].error_message = "Send failed"
        /\ queue[j].status = "sent"

\* C11: can_send(user, channel) returns false iff the history rows of (user,
\* channel) created in the last hour number per_hour or more, or those of the
\* last 24 hours per_day or more; so exactly per_hour rows in the last hour
\* deny, and per_hour - 1 (with the day below per_day) admit.
CanSendIffBelowLimits ==
    [][ Visits =>
          LET u == Current(1).user_id
              c == Current(1).channel
              inHour == Cardinality({k \in 1..Len(history) :
                            /\ history[k].user_id = u /\ history[k].channel = c
                            /\ history[k].created_at >= now - 1})
              inDay == Cardinality({k \in 1..Len(history) :
                            /\ history[k].user_id = u /\ history[k].channel = c
                            /\ history[k].created_at >= now - 24})
              returnsFalse == outcome'[1] = "rate_limited"
          IN  /\ returnsFalse <=> (\/ inHour >= ChannelLimits(c).per_hour
                                   \/ inDay >= ChannelLimits(c).per_day)
              /\ inHour = ChannelLimits(c).per_hour => returnsFalse
              /\ (/\ inHour = ChannelLimits(c).per_hour - 1
                  /\ inDay < ChannelLimits(c).per_day) => ~ returnsFalse
      ]_vars

\* an email item denied with exactly per_hour rows in the last hour and the day
\* below per_day, while user 1's slack rows of that hour do not count against it
HourBoundaryWitness ==
    /\ outcome[1] = "rate_limited"
    /\ \E i \in PendingRows :
          /\ queue[i].channel = "email"
          /\ HourlyCount(queue[i].user_id, "email") = ChannelLimits("email").per_hour
          /\ DailyCount(queue[i].user_id, "email") < ChannelLimits("email").per_day
          /\ HourlyCount(queue[i].user_id, "slack") > 0

---------------------------------------------------------------------------
(* Vocabulary of the properties of the alert rules and of the detector. *)

\* models/alert.py ALERT_TYPES
ALERT_TYPES ==
    {"approaching_limit", "limit_exceeded", "high_cost", "service_down",
     "unusual_activity"}

AlertRows == 1..Len(alerts)

\* the unacknowledged alerts of (account_id, alert_type)
UnackRows(account_id, alert_type) ==
    {i \in AlertRows :
        /\ alerts[i].account_id = account_id
        /\ alerts[i].alert_type = alert_type
        /\ alerts[i].is_acknowledged = FALSE}

\* the rows a step adds to alerts / to the queue
AddedAlerts == (Len(alerts) + 1)..Len(alerts')

AddedItems == (Len(queue) + 1)..Len(queue')

\* the step is the budget evaluation e = <<account, monthly_cost, monthly_limit>>
\* whose fan-out commits succeed as f says
BudgetCall(e, f) ==
    /\ returned'.op = "check_and_generate_alerts"
    /\ CheckAndGenerateAlerts(e[1], e[2], e[3], f)

\* the evaluations with monthly_limit > 0
Limited == {e \in Evaluations : e[3] # NoLimit /\ e[3] # <<0>> /\ e[3] # <<0 - 200>>}

\* the step is a run of the detector (the clock does not move during a call)
DetectorCall == returned'.op = "detect_anomalies" /\ now' = now

\* the unacknowledged anomalies a run of the detector returned
Told == SelectSeq(returned'.result, LAMBDA r : ~ r.is_acknowledged)

---------------------------------------------------------------------------
\* C12: under budget evaluations, detector runs and acknowledgements there is
\* at most one unacknowledged alert per (account_id, alert_type); a breach (a
\* tier reached, an unacknowledged anomaly reported) that finds one sets
\* last_triggered and message on that row, changes nothing else of it, and
\* adds no row of that account and type.
OneUnacknowledgedPerType ==
    /\ [](\A a \in Accounts, ty \in ALERT_TYPES : Cardinality(UnackRows(a, ty)) <= 1)
    /\ [][ \A e \in Limited, f \in Fans : BudgetCall(e, f) =>
             \A k \in 1..3 : e[2] * 100 >= Tiers[k].threshold_percentage * e[3][1] =>
                \A i \in UnackRows(e[1], Tiers[k].alert_type) :
                   /\ alerts'[i] = [alerts[i] EXCEPT
                          !.last_triggered = <<now>>,
                          !.message = <<Tiers[k].alert_type, e[1], e[2], e[3][1]>>]
                   /\ \A j \in AddedAlerts :
                         ~ (/\ alerts'[j].account_id = e[1]
                            /\ alerts'[j].alert_type = Tiers[k].alert_type)
         ]_vars
    /\ [][ (DetectorCall /\ Told # <<>>) =>
             \A i \in UnackRows(Told[1].account_id, "unusual_activity") :
                /\ alerts'[i] = [alerts[i] EXCEPT
                       !.last_triggered = <<now>>,
                       !.message = Told[Len(Told)].description]
                /\ \A j \in AddedAlerts : alerts'[j].alert_type # "unusual_activity"
         ]_vars

\* three alerts of account 1 made by one evaluation at $200, the first of them
\* updated an hour later by an evaluation at $140, without further fan-out
UpdatedInPlaceWitness ==
    /\ returned.op = "check_and_generate_alerts"
    /\ Len(alerts) = 3
    /\ \A i \in AlertRows : alerts[i].account_id = 1 /\ ~ alerts[i].is_acknowledged
    /\ alerts[1].alert_type = "approaching_limit"
    /\ alerts[1].message = <<"approaching_limit", 1, 140, 200>>
    /\ alerts[1].last_triggered = <<1>>
    /\ alerts[3].alert_type = "limit_exceeded"
    /\ alerts[3].last_triggered = <<0>>
    /\ Len(queue) = 6

\* the queue rows fan-out made for alert j
ItemsOf(j) == {q \in 1..Len(queue) : queue[q].alert_id = j}

\* C13: fan-out belongs to the creation of an alert: every queue row a step
\* adds is for an alert that same step created, so a breach that updates an
\* unacknowledged alert in place adds none; the rows already queued stay as
\* they are, and an alert never has two rows for one channel.
FanOutOnlyOnCreation ==
    /\ [][ /\ \A q \in AddedItems : queue'[q].alert_id \in AddedAlerts
           /\ Len(queue') >= Len(queue)
           /\ SubSeq(queue', 1, Len(queue)) = queue
           /\ AddedAlerts = {} => queue' = queue
         ]_vars
    /\ [](\A p, q \in 1..Len(queue) :
             (queue[p].alert_id = queue[q].alert_id /\ queue[p].channel = queue[q].channel)
                 => p = q)

\* a high_cost alert breached again an hour after it was made, still with just
\* the two queue rows of its creation
RepeatedBreachWitness ==
    /\ returned.op = "check_and_generate_alerts"
    /\ \E j \in AlertRows :
          /\ alerts[j].alert_type = "high_cost"
          /\ ~ alerts[j].is_acknowledged
          /\ alerts[j].message = <<"high_cost", 1, 180, 200>>
          /\ alerts[j].last_triggered = <<1>>
          /\ Cardinality(ItemsOf(j)) = 2
          /\ \E i \in AlertRows :
                /\ alerts[i].alert_type = "limit_exceeded"
                /\ alerts[i].last_triggered = <<0>>

\* the acknowledged alerts of (account_id, alert_type)
AckedRows(account_id, alert_type) ==
    {i \in AlertRows :
        /\ alerts[i].account_id = account_id
        /\ alerts[i].alert_type = alert_type
        /\ alerts[i].is_acknowledged = TRUE}

\* C14: a breach of a tier whose alerts of that account and type have all been
\* acknowledged adds exactly one row, a new unacknowledged alert of that type
\* triggered now, leaves the acknowledged rows as they are, and fans out for
\* the new alert (account 1's owner has preferences that take budget alerts).
AcknowledgedFiresAgain ==
    [][ \A e \in Limited, f \in Fans : BudgetCall(e, f) =>
          \A k \in 1..3 :
             (/\ e[2] * 100 >= Tiers[k].threshold_percentage * e[3][1]
              /\ AckedRows(e[1], Tiers[k].alert_type) # {}
              /\ UnackRows(e[1], Tiers[k].alert_type) = {}) =>
                /\ \A i \in AckedRows(e[1], Tiers[k].alert_type) : alerts'[i] = alerts[i]
                /\ \E j \in AddedAlerts :
                      /\ alerts'[j].id = j
                      /\ alerts'[j].account_id = e[1]
                      /\ alerts'[j].alert_type = Tiers[k].alert_type
                      /\ alerts'[j].is_acknowledged = FALSE
                      /\ alerts'[j].last_triggered = <<now>>
                      /\ alerts'[j].message = <<Tiers[k].alert_type, e[1], e[2], e[3][1]>>
                      /\ \A i \in AddedAlerts :
                            alerts'[i].alert_type = Tiers[k].alert_type => i = j
                      /\ (f[k] /\ e[1] = 1) =>
                            \E q \in AddedItems :
                               queue'[q].alert_id = j /\ queue'[q].status = "pending"
      ]_vars

\* an acknowledged approaching_limit alert and a later unacknowledged one of the
\* same account, each with the queue rows of its own fan-out
FiredAgainWitness ==
    /\ returned.op = "check_and_generate_alerts"
    /\ \E i, j \in AlertRows :
          /\ i < j
          /\ alerts[i].account_id = 1 /\ alerts[j].account_id = 1
          /\ alerts[i].alert_type = "approaching_limit"
          /\ alerts[j].alert_type = "approaching_limit"
          /\ alerts[i].is_acknowledged
          /\ ~ alerts[j].is_acknowledged
          /\ ItemsOf(i) # {}
          /\ ItemsOf(j) # {}

\* the rows of (account_id, alert_type) are as they were and none is added
Untouched(account_id, alert_type) ==
    /\ \A i \in AlertRows :
          (alerts[i].account_id = account_id /\ alerts[i].alert_type = alert_type)
              => alerts'[i] = alerts[i]
    /\ \A j \in AddedAlerts :
          ~ (alerts'[j].account_id = account_id /\ alerts'[j].alert_type = alert_type)

\* after the step one unacknowledged alert of (account_id, alert_type) carries
\* this evaluation's time and message, and no other row of them changed
Upserted(account_id, alert_type, threshold_percentage, message) ==
    \E j \in 1..Len(alerts') :
       /\ alerts'[j].account_id = account_id
       /\ alerts'[j].alert_type = alert_type
       /\ alerts'[j].is_acknowledged = FALSE
       /\ alerts'[j].last_triggered = <<now>>
       /\ alerts'[j].message = message
       /\ j \in AddedAlerts => alerts'[j].threshold_percentage = threshold_percentage
       /\ \A i \in AlertRows \ {j} :
             (alerts[i].account_id = account_id /\ alerts[i].alert_type = alert_type)
                 => alerts'[i] = alerts[i]

\* C15: with monthly_limit > 0, check_and_generate_alerts upserts an
\* approaching_limit alert iff 100 * cost / limit >= 70, a high_cost alert iff
\* it is >= 90 and a limit_exceeded alert iff it is >= 100, each whatever the
\* others do, and touches no alert of another type or account; with
\* monthly_limit unset or <= 0 it changes nothing.
ThresholdLadder ==
    [][ \A e \in Evaluations, f \in Fans : BudgetCall(e, f) =>
          IF e[3] = <<>> \/ e[3] = <<0>> \/ e[3] = <<0 - 200>>
          THEN alerts' = alerts /\ queue' = queue /\ anomalies' = anomalies
          ELSE /\ \A tier \in {<<"approaching_limit", 70>>, <<"high_cost", 90>>,
                               <<"limit_exceeded", 100>>} :
                     IF e[2] * 100 >= tier[2] * e[3][1]
                     THEN Upserted(e[1], tier[1], tier[2], <<tier[1], e[1], e[2], e[3][1]>>)
                     ELSE Untouched(e[1], tier[1])
               /\ \A a \in Accounts, ty \in ALERT_TYPES :
                     (a # e[1] \/ ty \in {"unusual_activity", "service_down"})
                         => Untouched(a, ty)
      ]_vars

\* an evaluation at 90% of the limit has just made the approaching_limit and the
\* high_cost alert and no limit_exceeded alert
TwoTiersWitness ==
    /\ returned.op = "check_and_generate_alerts"
    /\ Len(alerts) = 2
    /\ alerts[1].alert_type = "approaching_limit"
    /\ alerts[1].threshold_percentage = 70
    /\ alerts[1].message = <<"approaching_limit", 1, 180, 200>>
    /\ alerts[2].alert_type = "high_cost"
    /\ alerts[2].threshold_percentage = 90
    /\ alerts[2].message = <<"high_cost", 1, 180, 200>>
    /\ alerts[2].last_triggered = <<now>>

\* the preference has a recipient: config.address for email, config.webhook_url
\* for the other channels
Configured(pref) ==
    LET key == IF pref.channel = "email" THEN "address" ELSE "webhook_url"
    IN  key \in DOMAIN pref.config /\ pref.config[key] \notin {None, ""}

\* the preferences that are to get a queue row for the alert the step added as
\* row j: those of the owner of its account, enabled, taking its category
Wanted(j) ==
    LET ty == alerts'[j].alert_type
        category == IF ty \in {"approaching_limit", "high_cost", "limit_exceeded"}
                    THEN "budget"
                    ELSE IF ty = "unusual_activity" THEN "anomaly" ELSE "system"
    IN  {p \in 1..Len(prefs) :
            /\ prefs[p].user_id = Owner(alerts'[j].account_id)
            /\ prefs[p].enabled
            /\ (prefs[p].alert_types = {} \/ category \in prefs[p].alert_types)
            /\ Configured(prefs[p])}

\* the queue rows the step added for alert j
Made(j) == {q \in AddedItems : queue'[q].alert_id = j}

\* the step added one pending row per wanted preference for alert j, with the
\* priority of the alert's type, and no other row for it
Delivered(j) ==
    LET ty == alerts'[j].alert_type
        priority == CASE ty = "approaching_limit" -> 1
                      [] ty = "high_cost" -> 2
                      [] ty = "limit_exceeded" -> 3
                      [] ty = "unusual_activity" -> 2
                      [] ty = "service_down" -> 2
    IN  /\ Cardinality(Made(j)) = Cardinality(Wanted(j))
        /\ \A p \in Wanted(j) : \E q \in Made(j) :
              /\ queue'[q].user_id = prefs[p].user_id
              /\ queue'[q].channel = prefs[p].channel
              /\ queue'[q].recipient
                    = prefs[p].config[IF prefs[p].channel = "email"
                                      THEN "address" ELSE "webhook_url"]
              /\ queue'[q].priority = priority
              /\ queue'[q].status = "pending"
              /\ queue'[q].retry_count = 0

\* C16: the fan-out of a new alert, when its commit succeeds, inserts exactly
\* one pending queue row for each preference of the account's owner that is
\* enabled, has alert_types empty or containing the alert's category and has a
\* recipient (config.address for email, config.webhook_url otherwise), with
\* priority approaching_limit 1, high_cost 2, limit_exceeded 3,
\* unusual_activity 2; no other preference gets a row.  When the commit fails
\* the alert has no row.
FanOutPerPreference ==
    [][ /\ \A e \in Limited, f \in Fans : BudgetCall(e, f) =>
              \A k \in 1..3 : \A j \in AddedAlerts :
                 alerts'[j].alert_type = Tiers[k].alert_type =>
                    IF f[k] THEN Delivered(j) ELSE Made(j) = {}
        /\ \A j \in AddedAlerts : alerts'[j].alert_type = "unusual_activity" =>
              \A ok \in BOOLEAN :
                 DetectAnomalies(alerts'[j].account_id, <<30, 31>>, 0, ok) =>
                    IF ok THEN Delivered(j) ELSE Made(j) = {}
      ]_vars

\* account 1 has an approaching_limit alert queued for email and slack at
\* priority 1 and an unusual_activity alert queued for email alone at priority 2
FanOutWitness ==
    \E i, j \in AlertRows :
       /\ alerts[i].account_id = 1 /\ alerts[i].alert_type = "approaching_limit"
       /\ {<<queue[q].channel, queue[q].priority, queue[q].recipient>> : q \in ItemsOf(i)}
             = {<<"email", 1, "a@x">>, <<"slack", 1, "https://s/1">>}
       /\ alerts[j].account_id = 1 /\ alerts[j].alert_type = "unusual_activity"
       /\ {<<queue[q].channel, queue[q].priority, queue[q].recipient>> : q \in ItemsOf(j)}
             = {<<"email", 2, "a@x">>}

AnomalyIds == 1..Len(anomalies)

\* C17: a run of detect_anomalies on unchanged usage leaves every stored
\* DetectedAnomaly row exactly as it was, field by field, and adds a row only
\* for a date that had none: there is never more than one row per account and
\* date, and each anomaly a run returns is the one row of its date.
IdempotentUpsert ==
    /\ [](\A i, j \in AnomalyIds :
             (/\ anomalies[i].account_id = anomalies[j].account_id
              /\ anomalies[i].anomaly_date = anomalies[j].anomaly_date) => i = j)
    /\ [][ DetectorCall =>
             /\ Len(anomalies') >= Len(anomalies)
             /\ \A i \in AnomalyIds : anomalies'[i] = anomalies[i]
             /\ \A k \in 1..Len(returned'.result) :
                   LET r == returned'.result[k]
                       same == {i \in 1..Len(anomalies') :
                                   /\ anomalies'[i].account_id = r.account_id
                                   /\ anomalies'[i].anomaly_date = r.anomaly_date}
                   IN  Cardinality(same) = 1 /\ \A i \in same : anomalies'[i] = r
         ]_vars

\* a run has just returned the two anomalies an earlier run stored an hour
\* before, one of them acknowledged since; they are the only rows
SecondRunWitness ==
    /\ returned.op = "detect_anomalies"
    /\ Len(returned.result) = 2
    /\ Len(anomalies) = 2
    /\ now = 1
    /\ \A k \in 1..2 : returned.result[k].detected_at = <<0>>
    /\ \E k \in 1..2 : returned.result[k].is_acknowledged
    /\ returned.result[1].anomaly_date # returned.result[2].anomaly_date

\* C18: when the account's config has is_enabled false, detect_anomalies
\* returns an empty list and changes no DetectedAnomaly row, alert or queue
\* row, whatever the usage of the account and the range asked for.
DisabledIsInert ==
    [][ \A a \in Accounts, r \in DateRanges \cup {NoRange}, bad \in {0, 31} :
          (/\ DetectorCall
           /\ config[a] # <<>>
           /\ config[a].is_enabled = FALSE
           /\ DetectAnomalies(a, r, bad, TRUE)) =>
              /\ returned'.result = <<>>
              /\ anomalies' = anomalies
              /\ alerts' = alerts
              /\ queue' = queue
      ]_vars

\* the detector has run on the usage with the $100.00 day after jittering days
\* while switched off, and nothing is stored
DisabledWitness ==
    /\ returned.op = "detect_anomalies"
    /\ config[1] # <<>>
    /\ config[1].is_enabled = FALSE
    /\ usage[1] = JitterThenSpike
    /\ returned.result = <<>>
    /\ anomalies = <<>> /\ alerts = <<>> /\ queue = <<>>

\* baseline_days of the account's runs
BaselineDaysOf(account_id) ==
    IF config[account_id] # <<>> THEN config[account_id].baseline_days ELSE 30

\* the days of usage that make the baseline of target_date
BaselineOf(account_id, target_date) ==
    {d \in DOMAIN usage[account_id] :
        d >= target_date - BaselineDaysOf(account_id) /\ d <= target_date - 1}

\* the costs of the baseline days of target_date are all the same amount
FlatBaseline(account_id, target_date) ==
    \A d, e \in BaselineOf(account_id, target_date) :
       usage[account_id][d] = usage[account_id][e]

\* C19: no anomaly is produced for a day whose baseline costs are all
\* identical, whatever the cost of the day: no stored DetectedAnomaly and no
\* anomaly a run returns is of such a day.
FlatBaselineNoAnomaly ==
    /\ \A i \in AnomalyIds :
          ~ FlatBaseline(anomalies[i].account_id, anomalies[i].anomaly_date)
    /\ returned.op = "detect_anomalies" =>
          \A k \in 1..Len(returned.result) :
             ~ FlatBaseline(returned.result[k].account_id,
                            returned.result[k].anomaly_date)

\* the step is a run over day 31 alone on account 1 with the default
\* sensitivity and baseline_days, all of whose commits succeed
DefaultRunOverSpikeDay ==
    /\ DetectorCall
    /\ config[1] = <<>>
    /\ DetectAnomalies(1, <<31, 31>>, 0, TRUE)

\* the run returned exactly one anomaly, of day 31, with z_score > 2.0
\* (z_score is <<dev, sumsq, n - 1>> for dev / sqrt(sumsq / (n - 1)))
OneAnomalyAboveTwoSigma ==
    /\ Len(returned'.result) = 1
    /\ returned'.result[1].anomaly_date = 31
    /\ LET z == returned'.result[1].z_score
       IN  z[1] > 0 /\ z[1] * z[1] * z[3] > 4 * z[2]

---------------------------------------------------------------------------
\* the last call was _severity_from_z
SeverityCall == returned.op = "_severity_from_z"

\* abs(z) >= k for the z-score z = <<dev, sumsq, n - 1>> and a whole k:
\* dev^2 * (n - 1) / sumsq >= k^2
MagnitudeAtLeast(z, k) == z[1] * z[1] * z[3] >= k * k * z[2]

\* the severity the thresholds 2.0, 3.0 and 4.0 give a magnitude
SeverityOfMagnitude(z) ==
    IF MagnitudeAtLeast(z, 4) THEN "critical"
    ELSE IF MagnitudeAtLeast(z, 3) THEN "high"
    ELSE IF MagnitudeAtLeast(z, 2) THEN "medium"
    ELSE "low"

\* C21: the severity depends on |z| alone: critical from 4.0, high from 3.0 to
\* below 4.0, medium from 2.0 to below 3.0, low below 2.0; z and -z get the
\* same severity.
SeverityByMagnitude ==
    SeverityCall =>
        /\ returned.result = SeverityOfMagnitude(returned.z_score)
        /\ returned.result = _severity_from_z(0 - returned.z_score[1],
                                 returned.z_score[2], returned.z_score[3] + 1)

\* a z-score of exactly -3.0 is high
NegativeBoundaryWitness ==
    /\ SeverityCall
    /\ returned.z_score = <<0 - 3, 1, 1>>
    /\ returned.result = "high"

---------------------------------------------------------------------------
\* the channels the preferences API accepts (routes/notifications.py)
VALID_CHANNELS == {"email", "slack", "discord", "teams"}

\* C24: an admitted pending item of channel email, slack, discord or teams is
\* routed to that channel's sender (a sender call begins for it); only an item
\* of a channel outside these four is marked failed as unsupported, without a
\* send attempt.
FourChannelsRouted ==
    [][ (Visits /\ ~ Denied(Current(1).user_id, Current(1).channel)) =>
           IF Current(1).channel \in VALID_CHANNELS
           THEN /\ pc'[1] = "send"
                /\ item'[1] = Current(1)
           ELSE /\ pc'[1] = "commit"
                /\ outcome'[1] = "unsupported"
                /\ item'[1].status = "failed"
      ]_vars

---------------------------------------------------------------------------
\* the last call was linear_forecast
ForecastCall == returned.op = "linear_forecast"

\* the number of points of the history given
PointsGiven == Cardinality(DOMAIN returned.data)

\* the last date of the history given
LastDate == CHOOSE d \in DOMAIN returned.data : \A e \in DOMAIN returned.data : e <= d

\* the number of forecast points a horizon asks for
Capped(horizon) ==
    IF horizon < 1 THEN 1 ELSE IF horizon > 90 THEN 90 ELSE horizon

\* C22: over a history of at least 2 points linear_forecast returns exactly
\* min(max(1, horizon), 90) forecast points, dated on the consecutive days
\* 1..n after the last historical date: horizon 999 yields 90 points, horizon
\* 7 yields 7, a horizon of 0 or less yields 1.
HorizonBound ==
    (ForecastCall /\ PointsGiven >= 2) =>
        /\ Len(returned.result.forecast) = Capped(returned.horizon)
        /\ \A i \in 1..Len(returned.result.forecast) :
              returned.result.forecast[i].date = LastDate + i
        /\ returned.horizon = 999 => Len(returned.result.forecast) = 90
        /\ returned.horizon = 7 => Len(returned.result.forecast) = 7
        /\ returned.horizon <= 0 => Len(returned.result.forecast) = 1

\* horizon 999 over a history with a gap: 90 points, the last one 90 days
\* after day 6
CappedHorizonWitness ==
    /\ ForecastCall
    /\ returned.horizon = 999
    /\ DOMAIN returned.data = {1, 2, 6}
    /\ Len(returned.result.forecast) = 90
    /\ returned.result.forecast[90].date = 96

---------------------------------------------------------------------------
\* the <<user_id, channel>> pairs of the queue
Pairs == {<<queue[i].user_id, queue[i].channel>> : i \in Rows}

\* the dispatchers that have passed can_send for an item of (user_id, channel)
\* and not committed its history row yet
InFlight(user_id, channel) ==
    {d \in Dispatchers :
        /\ pc[d] \in {"send", "commit"}
        /\ item[d].user_id = user_id
        /\ item[d].channel = channel}

\* C25: two dispatcher instances running concurrently can exceed the rate
\* limits: both can pass can_send for the same (user, channel) before either
\* commits its history row, and the history rows of one hour then exceed
\* per_hour.  Only the sends in flight can exceed the limit: committed rows
\* plus sends in flight never exceed per_hour by more than the one send of
\* the other instance.
ExcessOnlyByOverlap ==
    \A p \in Pairs :
        HourlyCount(p[1], p[2]) + Cardinality(InFlight(p[1], p[2]))
            <= ChannelLimits(p[2]).per_hour + 1

\* both instances were admitted on the same count and both committed: the
\* rows of (user 1, email) within the hour are one more than per_hour
ExceededWitness ==
    /\ HourlyCount(1, "email") > ChannelLimits("email").per_hour
    /\ InFlight(1, "email") = {}

---------------------------------------------------------------------------
\* run r takes the step that assigns or adds the row of its day and commits
Writes(r) == runs[r].pc = "commit" /\ runs'[r].pc # "commit"

\* the statistical fields, severity and description of a row or an evaluation
Measured(x) ==
    [daily_cost |-> x.daily_cost, baseline_mean |-> x.baseline_mean,
     baseline_std |-> x.baseline_std, z_score |-> x.z_score,
     cost_delta |-> x.cost_delta, severity |-> x.severity,
     description |-> x.description]

\* the other columns of a row
Kept(x) ==
    [id |-> x.id, account_id |-> x.account_id, anomaly_date |-> x.anomaly_date,
     is_acknowledged |-> x.is_acknowledged, detected_at |-> x.detected_at]

\* C26: interleaved detect_anomalies runs for the same account and anomalous
\* date serialize: there is exactly one row for (account_id, anomaly_date), no
\* row mixes the fields of two runs, and the row holds the values of the run
\* that wrote last; so right after a run has written its day, the one row of
\* that day holds that run's values.
LastWriterWins ==
    [][ \A r \in Runs : Writes(r) =>
           LET found == AnomalyRows(anomalies', runs[r].account_id, runs[r].current)
           IN  /\ Cardinality(found) = 1
               /\ \A i \in found : Measured(anomalies'[i]) = Measured(runs[r].stats)
      ]_vars

---------------------------------------------------------------------------
\* the step is taken by a detector run
RunStep == runs' # runs

\* run r passes over its day, which it found not anomalous
PassesOver(r) ==
    /\ runs[r].pc = "evaluate"
    /\ runs'[r].pc = "evaluate"
    /\ runs'[r].current = runs[r].current + 1

\* C27: detect_anomalies never deletes a DetectedAnomaly row and never changes
\* is_acknowledged: re-evaluating a date whose row is acknowledged overwrites
\* only the statistical fields, severity and description and leaves
\* is_acknowledged true, and a date that is no longer anomalous on
\* re-evaluation keeps its existing row unchanged.
DetectorKeepsRows ==
    [][ RunStep =>
           /\ Len(anomalies') >= Len(anomalies)
           /\ \A i \in 1..Len(anomalies) : Kept(anomalies'[i]) = Kept(anomalies[i])
           /\ \A r \in Runs :
                 /\ (Writes(r) /\ runs[r].existing # NoRow) =>
                       /\ Len(anomalies') = Len(anomalies)
                       /\ Measured(anomalies'[runs[r].existing.id])
                              = Measured(runs[r].stats)
                       /\ \A i \in 1..Len(anomalies) :
                              i # runs[r].existing.id => anomalies'[i] = anomalies[i]
                 /\ PassesOver(r) => anomalies' = anomalies
      ]_vars

\* run 1 has overwritten the row it had loaded as acknowledged, with other
\* statistics than the row had, and the row is still acknowledged; run 2 has
\* passed over the same date, not anomalous at its sensitivity, and the row
\* is there
ReevaluatedWitness ==
    /\ runs[1].pc = "evaluate" /\ runs[2].pc = "evaluate"
    /\ runs[1].current = 32 /\ runs[2].current = 32
    /\ runs[1].existing # NoRow
    /\ runs[1].existing.is_acknowledged
    /\ Measured(runs[1].existing) # Measured(runs[1].stats)
    /\ runs[1].anomalies = <<runs[1].existing.id>>
    /\ anomalies[runs[1].existing.id].is_acknowledged
    /\ Measured(anomalies[runs[1].existing.id]) = Measured(runs[1].stats)
    /\ runs[2].stats = NoAnomaly
    /\ runs[2].anomalies = <<>>
    /\ runs[2].sensitivity = 5

---------------------------------------------------------------------------
---------------------------------------------------------------------------
\* C29: queue rows are created with retry_count 0 and max_retries >= 1, and
\* through the cycles of one dispatcher every row keeps
\* 0 <= retry_count <= max_retries, a pending row has retry_count <
\* max_retries, and retry_count never decreases; the sender calls made for a
\* row (those whose result was committed and the one in progress) are at most
\* max_retries.

\* the sender calls for queue row i: one history row per committed result, and
\* the call whose result is not committed yet
SenderCalls(i) ==
    Cardinality({k \in 1..Len(history) :
                    /\ history[k].notification_id = i
                    /\ HasSender(history[k].channel)})
    + (IF pc[1] \in {"send", "commit"} /\ item[1].id = i /\ HasSender(item[1].channel)
       THEN 1 ELSE 0)

RetriesInRange(row) ==
    /\ 0 <= row.retry_count
    /\ row.retry_count <= row.max_retries
    /\ row.status = "pending" => row.retry_count < row.max_retries

RetryCountBounded ==
    /\ [](/\ \A i \in 1..Len(queue) :
                /\ queue[i].max_retries >= 1
                /\ RetriesInRange(queue[i])
                /\ SenderCalls(i) <= queue[i].max_retries
          /\ pc[1] = "commit" => RetriesInRange(item[1]))
    /\ [][ /\ Len(queue') >= Len(queue)
           /\ \A i \in 1..Len(queue) :
                 /\ queue'[i].retry_count >= queue[i].retry_count
                 /\ queue'[i].max_retries = queue[i].max_retries
           /\ \A i \in 1..Len(queue') \ 1..Len(queue) : queue'[i].retry_count = 0
         ]_vars

\* a row failed after exactly max_retries sender calls
RetriesExhaustedWitness ==
    \E i \in 1..Len(queue) :
        /\ queue[i].status = "failed"
        /\ queue[i].retry_count = queue[i].max_retries
        /\ SenderCalls(i) = queue[i].max_retries
        /\ pc[1] = "idle"

---------------------------------------------------------------------------
\* C30: with a finite queue, one dispatcher whose cycles recur for ever, the
\* clock advancing so that the rate-limit windows slide, and every commit
\* succeeding, every pending row eventually is sent or failed: rate-limited
\* rows at the head of the order do not hold the rest back for ever, and a
\* row whose sender keeps failing is failed after max_retries attempts.
EveryItemSettles ==
    \A i \in 1..(BatchLimit + 1) :
        (queue[i].status = "pending") ~> (queue[i].status \in {"sent", "failed"})

\* every row is settled, one of them failed after max_retries attempts, and
\* the email rows took more attempts than a day's window allows
SettledWitness ==
    /\ \A i \in 1..Len(queue) : queue[i].status \in {"sent", "failed"}
    /\ \E i \in 1..Len(queue) :
          /\ queue[i].status = "failed"
          /\ queue[i].retry_count = queue[i].max_retries
    /\ queue[Len(queue)].status = "sent"
    /\ Cardinality({k \in 1..Len(history) : history[k].channel = "email"})
          > ChannelLimits("email").per_day

=============================================================================
